---- MODULE Spec2Model ----
(***************************************************************************)
(* A model of pgverify: the query builders (query.go), the column model    *)
(* (column.go), the result aggregator (results.go) and the orchestrator    *)
(* (Verify, runTestsOnTarget, fetchTargetTableNames,                       *)
(* runTestQueriesOnTarget), together with a small model of the SQL engine  *)
(* that evaluates the generated fingerprint queries.                       *)
(*                                                                         *)
(* Text is modelled as a sequence of one-character strings, so that        *)
(* CONCAT is sequence concatenation and a cast to TEXT is the decimal      *)
(* rendering of a number.  MD5 is modelled as collision-free: it wraps its *)
(* argument in a pair of brackets, which keeps concatenations of hashes    *)
(* uniquely decodable as concatenations of fixed-width digests are.        *)
(***************************************************************************)
EXTENDS Integers, Sequences, FiniteSets

VARIABLES
    c,              \* the Config of the caller, passed to every call
    targets,        \* the targets argument of Verify: a sequence of hosts
    env,            \* per target: how the database behaves (see Healths)
    db,             \* per target: the rows of the table, in physical order
    catalog,        \* the column metadata the engines report for the table
    call,           \* number of the current Verify call
    inserted,       \* the rows inserted between calls
    pcV,            \* position of the Verify call
    conns,          \* set of target indexes holding an open connection
    targetNames,    \* Verify's local targetNames
    finalResults,   \* Verify's local finalResults (*Results)
    done,           \* per target: state of its done channel
    waited,         \* the done channels Verify has received from
    ret,            \* what the last Verify call returned
    pcB,            \* per target: position of its runTestsOnTarget goroutine
    sr,             \* per target: its schemaTableHashes (SingleResult)
    work,           \* per target: test modes still to run on the current table
    tabs,           \* per target: tables still to process
    add,            \* per target: AddResult's iteration state
    plan,           \* number of Verify calls the caller makes
    prev,           \* what the caller keeps of the report of its previous call
    table           \* the table WriteAsTable wrote for the last call

vars == <<c, targets, env, db, catalog, call, inserted, pcV, conns,
          targetNames, finalResults, done, waited, ret, pcB, sr, work,
          tabs, add, plan, prev, table>>

----------------------------------------------------------------------------
(* Generic helpers.                                                        *)

EmptyMap == [x \in {} |-> x]

MapPut(f, k, v) == [x \in (DOMAIN f) \cup {k} |-> IF x = k THEN v ELSE f[x]]

Range(s) == {s[i] : i \in DOMAIN s}

RECURSIVE Flatten(_)
Flatten(ss) == IF ss = <<>> THEN <<>> ELSE Head(ss) \o Flatten(Tail(ss))

RECURSIVE SeqFilter(_, _)
SeqFilter(s, keep) ==
    IF s = <<>> THEN <<>>
    ELSE (IF Head(s) \in keep THEN <<Head(s)>> ELSE <<>>) \o SeqFilter(Tail(s), keep)

Prefix(s, n) == IF Len(s) <= n THEN s ELSE SubSeq(s, 1, n)

Reverse(s) == [i \in 1..Len(s) |-> s[Len(s) + 1 - i]]

\* All sequences without repetition over the set S, of length at most n.
RECURSIVE Arrangements(_, _)
Arrangements(S, n) ==
    IF n = 0 THEN {<<>>}
    ELSE {<<>>} \cup UNION {{<<x>> \o t : t \in Arrangements(S \ {x}, n - 1)} : x \in S}

----------------------------------------------------------------------------
(* Text.                                                                   *)

Digit == <<"0", "1", "2", "3", "4", "5", "6", "7", "8", "9">>

\* n::TEXT for a small natural number.
RECURSIVE ToText(_)
ToText(n) == IF n < 10 THEN <<Digit[n + 1]>> ELSE ToText(n \div 10) \o <<Digit[(n % 10) + 1]>>

\* Byte order of the characters text is made of here.
CharRank(ch) ==
    CASE ch = "(" -> 0 [] ch = ")" -> 1
      [] ch = "0" -> 2 [] ch = "1" -> 3 [] ch = "2" -> 4 [] ch = "3" -> 5
      [] ch = "4" -> 6 [] ch = "5" -> 7 [] ch = "6" -> 8 [] ch = "7" -> 9
      [] ch = "8" -> 10 [] ch = "9" -> 11
      [] ch = "[" -> 12 [] ch = "]" -> 13
      [] OTHER -> 14

\* a < b in the (bytewise) order of text.
RECURSIVE TextLess(_, _)
TextLess(a, b) ==
    IF b = <<>> THEN FALSE
    ELSE IF a = <<>> THEN TRUE
    ELSE IF Head(a) = Head(b) THEN TextLess(Tail(a), Tail(b))
    ELSE CharRank(Head(a)) < CharRank(Head(b))

\* MD5, taken to be collision-free.
MD5(t) == <<"[">> \o t \o <<"]">>

\* The integer ('x' || substr(md5(t),1,16))::bit(64)::bigint of a text: a fixed
\* function of the text, here a polynomial fold of its characters.
RECURSIVE HashInt(_)
HashInt(t) == IF t = <<>> THEN 0 ELSE (3 * HashInt(Tail(t)) + CharRank(Head(t))) % 64

----------------------------------------------------------------------------
(* Configuration (Config, Validate).                                       *)

TestModeFull == "full"
TestModeBookend == "bookend"
TestModeSparse == "sparse"
TestModeRowCount == "rowcount"
TimestampPrecisionMilliseconds == "milliseconds"

defaultErrorOutput == <<"(err)">>

\* A scan that records the error sentinel when the query yields no rows.
noRowsAsError == <<"(err)">>

\* The output recorded for pgx.ErrNoRows.
noRowsOutput == <<"no rows">>

\* A validation that looks at the first test mode only.
ValidateFirstOnly(config) ==
    config.TestModes = <<>>
    \/ Head(config.TestModes) \in {TestModeBookend, TestModeFull, TestModeRowCount, TestModeSparse}

\* Validate: nil (TRUE) iff every configured mode is one of the four modes.
Validate(config) ==
    \A i \in DOMAIN config.TestModes :
        config.TestModes[i] \in {TestModeBookend, TestModeFull, TestModeRowCount, TestModeSparse}

----------------------------------------------------------------------------
(* Column model.                                                           *)

\* strings.ToLower on the declared data types that occur.
ToLower(s) ==
    CASE s = "TIMESTAMP WITH TIME ZONE" -> "timestamp with time zone"
      [] s = "INTEGER" -> "integer"
      [] OTHER -> s

\* A test that looks at the first constraint label only.
IsPrimaryKeyFirstLabel(col) ==
    col.constraints # <<>> /\ col.constraints[1] = "PRIMARY KEY"

IsPrimaryKey(col) == \E i \in DOMAIN col.constraints : col.constraints[i] = "PRIMARY KEY"

\* The SQL expression casting the column to TEXT, as a term:
\*   fn = "epoch": (extract(epoch from date_trunc('<precision>', <name>))::DECIMAL * 1000000)::BIGINT::TEXT
\*   fn = "text" : <name>::TEXT
CastToText(col, precision) ==
    IF ToLower(col.dataType) = "timestamp with time zone"
    THEN [fn |-> "epoch", precision |-> precision, name |-> col.name]
    ELSE [fn |-> "text", precision |-> "", name |-> col.name]

\* Alphabetical rank of the column names that occur.
NameRank(n) ==
    CASE n = "id" -> 1 [] n = "v" -> 2 [] n = "zid" -> 3 [] OTHER -> 4

\* Order of sort.Strings on cast expressions: "(extract(..." sorts before any
\* "<name>::TEXT" since "(" precedes letters; then by column name.
CastLess(a, b) ==
    IF a.fn # b.fn THEN a.fn = "epoch"
    ELSE NameRank(a.name) < NameRank(b.name)

\* sort.Strings on a sequence of cast expressions (insertion sort).
RECURSIVE insertCast(_, _)
insertCast(x, s) ==
    IF s = <<>> THEN <<x>>
    ELSE IF CastLess(x, Head(s)) THEN <<x>> \o s
    ELSE <<Head(s)>> \o insertCast(x, Tail(s))

\* The cast expressions left in the order of the column list.
sortCastsSkipped(s) == s

RECURSIVE sortCasts(_)
sortCasts(s) ==
    IF s = <<>> THEN <<>>
    ELSE insertCast(s[Len(s)], sortCasts(SubSeq(s, 1, Len(s) - 1)))

\* sort.Strings on a sequence of column names.
RECURSIVE insertName(_, _)
insertName(x, s) ==
    IF s = <<>> THEN <<x>>
    ELSE IF NameRank(x) < NameRank(Head(s)) THEN <<x>> \o s
    ELSE <<Head(s)>> \o insertName(x, Tail(s))

RECURSIVE sortNames(_)
sortNames(s) ==
    IF s = <<>> THEN <<>>
    ELSE insertName(s[Len(s)], sortNames(SubSeq(s, 1, Len(s) - 1)))

----------------------------------------------------------------------------
(* Query builders.  A query is the term of the SQL text the builder        *)
(* formats: which casts are hashed, which are concatenated for ORDER BY,   *)
(* whether that concatenation is wrapped in MD5, the sparse membership     *)
(* clauses and the LIMIT.                                                  *)

RECURSIVE castsOf(_, _)
castsOf(columns, precision) ==
    IF columns = <<>> THEN <<>>
    ELSE <<CastToText(Head(columns), precision)>> \o castsOf(Tail(columns), precision)

\* Only the first primary-key column found.
primaryKeysFirstOnly(columns) ==
    IF \E k \in DOMAIN columns : IsPrimaryKey(columns[k])
    THEN <<columns[CHOOSE k \in DOMAIN columns :
                      /\ IsPrimaryKey(columns[k])
                      /\ \A j \in 1..(k - 1) : ~IsPrimaryKey(columns[j])]>>
    ELSE <<>>

RECURSIVE primaryKeysOf(_)
primaryKeysOf(columns) ==
    IF columns = <<>> THEN <<>>
    ELSE (IF IsPrimaryKey(Head(columns)) THEN <<Head(columns)>> ELSE <<>>)
         \o primaryKeysOf(Tail(columns))

RECURSIVE namesOf(_)
namesOf(columns) ==
    IF columns = <<>> THEN <<>> ELSE <<Head(columns).name>> \o namesOf(Tail(columns))

\* The column filter of the configuration: a column is in scope when it is
\* named by IncludeColumns if that list is not empty, and else when it is
\* not named by ExcludeColumns.
inScopeColumn(config, name) ==
    IF Len(config.IncludeColumns) > 0
    THEN \E k \in DOMAIN config.IncludeColumns : config.IncludeColumns[k] = name
    ELSE ~\E k \in DOMAIN config.ExcludeColumns : config.ExcludeColumns[k] = name

\* The columns that enter the hashed payload, in the order given.
RECURSIVE inScopeColumns(_, _)
inScopeColumns(config, columns) ==
    IF columns = <<>> THEN <<>>
    ELSE (IF inScopeColumn(config, Head(columns).name) THEN <<Head(columns)>> ELSE <<>>)
         \o inScopeColumns(config, Tail(columns))

\* A builder that takes the key columns from the in-scope columns.
buildFullHashQueryKeysInScope(config, schemaName, tableName, columns) ==
    [kind |-> "full", schema |-> schemaName, table |-> tableName,
     hashed |-> sortCasts(castsOf(inScopeColumns(config, columns), config.TimestampPrecision)),
     orderBy |-> sortCasts(castsOf(primaryKeysOf(inScopeColumns(config, columns)),
                                   config.TimestampPrecision)),
     md5Key |-> config.HashPrimaryKeys,
     whenClauses |-> <<>>, bucketBy |-> <<>>, mod |-> 0, limit |-> 0]

\* The three hash builders cast every key column for ORDER BY and every
\* in-scope column for the hashed payload.
buildFullHashQuery(config, schemaName, tableName, columns) ==
    [kind |-> "full", schema |-> schemaName, table |-> tableName,
     hashed |-> sortCasts(castsOf(inScopeColumns(config, columns), config.TimestampPrecision)),
     orderBy |-> sortCasts(castsOf(primaryKeysOf(columns), config.TimestampPrecision)),
     md5Key |-> config.HashPrimaryKeys,
     whenClauses |-> <<>>, bucketBy |-> <<>>, mod |-> 0, limit |-> 0]

buildSparseHashQuery(config, schemaName, tableName, columns, sparseMod) ==
    [kind |-> "sparse", schema |-> schemaName, table |-> tableName,
     hashed |-> sortCasts(castsOf(inScopeColumns(config, columns), config.TimestampPrecision)),
     orderBy |-> sortCasts(castsOf(primaryKeysOf(columns), config.TimestampPrecision)),
     md5Key |-> config.HashPrimaryKeys,
     whenClauses |-> sortNames(namesOf(primaryKeysOf(columns))),
     bucketBy |-> sortCasts(castsOf(primaryKeysOf(columns), config.TimestampPrecision)),
     mod |-> sparseMod, limit |-> 0]

buildBookendHashQuery(config, schemaName, tableName, columns, limit) ==
    [kind |-> "bookend", schema |-> schemaName, table |-> tableName,
     hashed |-> sortCasts(castsOf(inScopeColumns(config, columns), config.TimestampPrecision)),
     orderBy |-> sortCasts(castsOf(primaryKeysOf(columns), config.TimestampPrecision)),
     md5Key |-> config.HashPrimaryKeys,
     whenClauses |-> <<>>, bucketBy |-> <<>>, mod |-> 0, limit |-> limit]

\* One clause of the WHERE of the table discovery: column op (values).
Clause(column, op, values) == [column |-> column, op |-> op, values |-> values]

\* Exclusions that override inclusions.
filterClausesExcludeFirst(column, include, exclude) ==
    IF Len(exclude) > 0 THEN <<Clause(column, "NOT IN", exclude)>>
    ELSE IF Len(include) > 0 THEN <<Clause(column, "IN", include)>>
    ELSE <<>>

\* The clause of one dimension: IN (include...) when the include list is not
\* empty, else NOT IN (exclude...) when the exclude list is not empty, else
\* no clause.
filterClauses(column, include, exclude) ==
    IF Len(include) > 0 THEN <<Clause(column, "IN", include)>>
    ELSE IF Len(exclude) > 0 THEN <<Clause(column, "NOT IN", exclude)>>
    ELSE <<>>

\* A discovery query whose WHERE holds the filters only.
buildGetTablesQueryNoViewClause(includeSchemas, excludeSchemas, includeTables, excludeTables) ==
    [from |-> "information_schema.tables",
     where |-> filterClauses("table_schema", includeSchemas, excludeSchemas)
               \o filterClauses("table_name", includeTables, excludeTables)]

\* buildGetTablesQuery: the clauses joined by AND after WHERE.
buildGetTablesQuery(includeSchemas, excludeSchemas, includeTables, excludeTables) ==
    [from |-> "information_schema.tables",
     where |-> <<Clause("table_type", "!=", <<"VIEW">>)>>
               \o filterClauses("table_schema", includeSchemas, excludeSchemas)
               \o filterClauses("table_name", includeTables, excludeTables)]

buildRowCountQuery(schemaName, tableName) ==
    [kind |-> "rowcount", schema |-> schemaName, table |-> tableName,
     hashed |-> <<>>, orderBy |-> <<>>, md5Key |-> FALSE,
     whenClauses |-> <<>>, bucketBy |-> <<>>, mod |-> 0, limit |-> 0]

\* The switch on testMode in runTestQueriesOnTarget.
buildQuery(config, schemaName, tableName, columns, testMode) ==
    CASE testMode = TestModeFull -> buildFullHashQuery(config, schemaName, tableName, columns)
      [] testMode = TestModeBookend ->
            buildBookendHashQuery(config, schemaName, tableName, columns, config.BookendLimit)
      [] testMode = TestModeSparse ->
            buildSparseHashQuery(config, schemaName, tableName, columns, config.SparseMod)
      [] OTHER -> buildRowCountQuery(schemaName, tableName)

----------------------------------------------------------------------------
(* The SQL engine: what a target answers to a fingerprint query on a table *)
(* whose rows are stored in the physical order of the sequence given.      *)
(* Rows with equal ORDER BY keys come out in physical order, which is one  *)
(* of the orders an engine may produce; the physical order itself is       *)
(* arbitrary.                                                              *)

\* The units date_trunc accepts, of those that occur, in microseconds.
DateTruncUnits == {"microseconds", TimestampPrecisionMilliseconds, "second"}

\* A date_trunc that truncates nothing.
TruncUnitNone(precision) == 1

\* Microseconds per unit of date_trunc.
TruncUnit(precision) ==
    CASE precision = "microseconds" -> 1
      [] precision = TimestampPrecisionMilliseconds -> 1000
      [] OTHER -> 1000000

\* The value of a cast expression on a row.  A timestamp is held as its
\* instant in microseconds.
EvalCast(cast, row) ==
    IF cast.fn = "epoch"
    THEN ToText((row[cast.name] \div TruncUnit(cast.precision)) * TruncUnit(cast.precision))
    ELSE ToText(row[cast.name])

\* CONCAT(<casts>) on a row.
ConcatCasts(casts, row) == Flatten([i \in 1..Len(casts) |-> EvalCast(casts[i], row)])

\* The ORDER BY expression of a query on a row.
OrderKey(q, row) ==
    IF q.md5Key THEN MD5(ConcatCasts(q.orderBy, row)) ELSE ConcatCasts(q.orderBy, row)

KeyBefore(q, x, y, desc) ==
    IF desc THEN TextLess(OrderKey(q, y), OrderKey(q, x))
    ELSE TextLess(OrderKey(q, x), OrderKey(q, y))

RECURSIVE insertRow(_, _, _, _)
insertRow(x, s, q, desc) ==
    IF s = <<>> THEN <<x>>
    ELSE IF KeyBefore(q, x, Head(s), desc) THEN <<x>> \o s
    ELSE <<Head(s)>> \o insertRow(x, Tail(s), q, desc)

\* ORDER BY <key> ASC / DESC.
RECURSIVE OrderRows(_, _, _)
OrderRows(rows, q, desc) ==
    IF rows = <<>> THEN <<>>
    ELSE insertRow(rows[Len(rows)], OrderRows(SubSeq(rows, 1, Len(rows) - 1), q, desc), q, desc)

\* MD5(CONCAT(<hashed casts>)) AS hash
RowHash(q, row) == MD5(ConcatCasts(q.hashed, row))

\* SQL NULL and non-NULL text values.
Null == [null |-> TRUE, text |-> <<>>]

Some(t) == [null |-> FALSE, text |-> t]

\* md5(string_agg(hash, '')) over the rows in the order given: NULL over no rows.
AggregateHash(q, rows) ==
    IF rows = <<>> THEN Null
    ELSE Some(MD5(Flatten([i \in 1..Len(rows) |-> RowHash(q, rows[i])])))

\* ('x' || substr(md5(CONCAT(<pk casts>)),1,16))::bit(64)::bigint % mod = 0
\* A bucket test for the remainder 1 instead of 0.
InBucketRemainderOne(q, row) == HashInt(MD5(ConcatCasts(q.bucketBy, row))) % q.mod = 1

InBucket(q, row) == HashInt(MD5(ConcatCasts(q.bucketBy, row))) % q.mod = 0

\* The membership conditions joined by OR.
SparseSelectedAnyColumn(q, rows, row) ==
    \E i \in 1..Len(q.whenClauses) :
        \E j \in 1..Len(rows) :
            /\ InBucket(q, rows[j])
            /\ rows[j][q.whenClauses[i]] = row[q.whenClauses[i]]

\* <pkey> in (SELECT <pkey> FROM t WHERE <bucket condition>), for every key column.
SparseSelected(q, rows, row) ==
    \A i \in 1..Len(q.whenClauses) :
        \E j \in 1..Len(rows) :
            /\ InBucket(q, rows[j])
            /\ rows[j][q.whenClauses[i]] = row[q.whenClauses[i]]

RECURSIVE SparseFilter(_, _, _)
SparseFilter(q, rows, rest) ==
    IF rest = <<>> THEN <<>>
    ELSE (IF SparseSelected(q, rows, Head(rest)) THEN <<Head(rest)>> ELSE <<>>)
         \o SparseFilter(q, rows, Tail(rest))

\* <subquery alias>::TEXT: the row value (h) or (), as text.
RowText(v) == <<"(">> \o v.text \o <<")">>

\* A query the engine rejects: a date_trunc unit it does not know, CONCAT()
\* without arguments, an empty WHERE, a modulo by zero, a negative LIMIT.
QueryFails(q, rows) ==
    /\ q.kind # "rowcount"
    /\ \/ \E k \in DOMAIN q.hashed :
             q.hashed[k].fn = "epoch" /\ q.hashed[k].precision \notin DateTruncUnits
       \/ q.hashed = <<>>
       \/ q.orderBy = <<>>
       \/ q.kind = "sparse" /\ (q.whenClauses = <<>> \/ (q.mod = 0 /\ rows # <<>>))
       \/ q.kind = "bookend" /\ q.limit < 0

\* The single value of the single row a fingerprint query returns.
QueryValue(q, rows) ==
    CASE q.kind = "rowcount" -> Some(ToText(Len(rows)))
      [] q.kind = "full" -> AggregateHash(q, OrderRows(rows, q, FALSE))
      [] q.kind = "sparse" ->
            AggregateHash(q, OrderRows(SparseFilter(q, rows, rows), q, FALSE))
      [] OTHER ->
            Some(MD5(RowText(AggregateHash(q, Prefix(OrderRows(rows, q, FALSE), q.limit)))
                     \o RowText(AggregateHash(q, Prefix(OrderRows(rows, q, TRUE), q.limit)))))

----------------------------------------------------------------------------
(* Result aggregator (Results, NewResults, AddResult, CheckForErrors).     *)

SchemaName == "public"

TableName == "failtest"

\* A nil *Results.
NilResults ==
    [nil |-> TRUE, targetNames |-> <<>>, testModes |-> <<>>, content |-> EmptyMap, mutex |-> 0]

\* mutex = 0: unlocked; otherwise the target whose AddResult holds it.
\* A Results that starts from the content of the previous report.
NewResultsReused(names, testModes) ==
    [nil |-> FALSE, targetNames |-> names, testModes |-> testModes,
     content |-> prev.content, mutex |-> 0]

\* NewResults: an empty content, the names and modes given, a free mutex.
NewResults(names, testModes) ==
    [nil |-> FALSE, targetNames |-> names, testModes |-> testModes,
     content |-> EmptyMap, mutex |-> 0]

\* The (schema, table, mode) cells of a three-level map.
CellsOf(m) ==
    UNION {UNION {{<<s, t, o>> : o \in DOMAIN m[s][t]} : t \in DOMAIN m[s]} : s \in DOMAIN m}

\* content with the maps of a cell made where absent (results.go: the three
\* "if _, ok := ...; !ok" blocks of AddResult).
EnsureCell(content, s, t, m) ==
    LET c1 == IF s \in DOMAIN content THEN content ELSE MapPut(content, s, EmptyMap)
        c2 == IF t \in DOMAIN c1[s] THEN c1 ELSE MapPut(c1, s, MapPut(c1[s], t, EmptyMap))
    IN  IF m \in DOMAIN c2[s][t] THEN c2
        ELSE MapPut(c2, s, MapPut(c2[s], t, MapPut(c2[s][t], m, EmptyMap)))

\* A read that always yields nil: append starts a new list every time.
TargetListFresh(content, s, t, m, output) == <<>>

\* r.content[s][t][m][output], nil when absent.
TargetList(content, s, t, m, output) ==
    IF output \in DOMAIN content[s][t][m] THEN content[s][t][m][output] ELSE <<>>

\* r.content[s][t][m][output] = list
StoreList(content, s, t, m, output, list) ==
    LET c1 == EnsureCell(content, s, t, m)
    IN  MapPut(c1, s, MapPut(c1[s], t, MapPut(c1[s][t], m, MapPut(c1[s][t][m], output, list))))

\* fmt.Errorf(format, args...): the format and its arguments, each as the
\* text that %s or %d renders.
Errorf(format, args) == [format |-> format, args |-> args]

\* The errors of one output of a cell, with the count check or without it.
OutputErrors(r, s, t, m, o, counted) ==
    (IF counted /\ Len(r.content[s][t][m][o]) # Len(r.targetNames)
     THEN {Errorf("%s.%s test %s has %d targets (should be %d)",
                  <<<<s>>, <<t>>, <<m>>, ToText(Len(r.content[s][t][m][o])),
                    ToText(Len(r.targetNames))>>)}
     ELSE {})
    \cup
    (IF o = defaultErrorOutput
     THEN {Errorf("%s.%s test %s has error output", <<<<s>>, <<t>>, <<m>>>>)}
     ELSE {})

\* A CheckForErrors loop body without the continue after a divergence.
CellErrorsNoContinue(r, s, t, m) ==
    (IF Cardinality(DOMAIN r.content[s][t][m]) > 1
     THEN {Errorf("%s.%s test %s has %d outputs",
                  <<<<s>>, <<t>>, <<m>>, ToText(Cardinality(DOMAIN r.content[s][t][m]))>>)}
     ELSE {})
    \cup UNION {OutputErrors(r, s, t, m, o, TRUE) : o \in DOMAIN r.content[s][t][m]}

\* A CheckForErrors loop body that compares the number of targets of every
\* output before the continue.
CellErrorsCountBeforeContinue(r, s, t, m) ==
    {Errorf("%s.%s test %s has %d targets (should be %d)",
            <<<<s>>, <<t>>, <<m>>, ToText(Len(r.content[s][t][m][o])),
              ToText(Len(r.targetNames))>>) :
        o \in {x \in DOMAIN r.content[s][t][m] :
                  Len(r.content[s][t][m][x]) # Len(r.targetNames)}}
    \cup
    (IF Cardinality(DOMAIN r.content[s][t][m]) > 1
     THEN {Errorf("%s.%s test %s has %d outputs",
                  <<<<s>>, <<t>>, <<m>>, ToText(Cardinality(DOMAIN r.content[s][t][m]))>>)}
     ELSE {Errorf("%s.%s test %s has error output", <<<<s>>, <<t>>, <<m>>>>) :
              o \in DOMAIN r.content[s][t][m] \cap {defaultErrorOutput}})

\* A CheckForErrors loop body that does not compare the number of targets.
CellErrorsNoCount(r, s, t, m) ==
    IF Cardinality(DOMAIN r.content[s][t][m]) > 1
    THEN {Errorf("%s.%s test %s has %d outputs",
                 <<<<s>>, <<t>>, <<m>>, ToText(Cardinality(DOMAIN r.content[s][t][m]))>>)}
    ELSE UNION {OutputErrors(r, s, t, m, o, FALSE) : o \in DOMAIN r.content[s][t][m]}

\* The errors of one cell: what CheckForErrors appends in one iteration of
\* its loop over modes.
CellErrors(r, s, t, m) ==
    LET outputs == r.content[s][t][m]
    IN  IF Cardinality(DOMAIN outputs) > 1
        THEN {Errorf("%s.%s test %s has %d outputs",
                     <<<<s>>, <<t>>, <<m>>, ToText(Cardinality(DOMAIN outputs))>>)}
        ELSE UNION {
               (IF Len(outputs[o]) # Len(r.targetNames)
                THEN {Errorf("%s.%s test %s has %d targets (should be %d)",
                             <<<<s>>, <<t>>, <<m>>, ToText(Len(outputs[o])),
                               ToText(Len(r.targetNames))>>)}
                ELSE {})
               \cup
               (IF o = defaultErrorOutput
                THEN {Errorf("%s.%s test %s has error output", <<<<s>>, <<t>>, <<m>>>>)}
                ELSE {})
               : o \in DOMAIN outputs}

\* A CheckForErrors that returns at the first cell it finds an error in.
CheckForErrorsFirstOnly(r) ==
    LET bad == {cell \in CellsOf(r.content) : CellErrors(r, cell[1], cell[2], cell[3]) # {}}
        first == CHOOSE cell \in bad : TRUE
    IN  IF bad = {} THEN {} ELSE CellErrors(r, first[1], first[2], first[3])

\* CheckForErrors: the errors of all cells.  The order of the returned slice
\* is the iteration order of the maps; the errors of a run are pairwise
\* different, so the set holds each exactly once.
CheckForErrors(r) ==
    UNION {CellErrors(r, cell[1], cell[2], cell[3]) : cell \in CellsOf(r.content)}

----------------------------------------------------------------------------
(* The inputs of a run: targets, configuration, database contents and the  *)
(* way each database behaves.                                              *)

\* How a target behaves: it works, refuses the connection, fails the table
\* discovery query, fails the column discovery query, fails every
\* fingerprint query, or answers every fingerprint query with no rows.
Healths == {"ok", "connfail", "discfail", "colfail", "qfail", "norows"}

\* A target whose queries work and where the scan of one row fails: a row of
\* the table discovery, or a row of every column discovery.
ScanHealths == {"tscanfail", "cscanfail"}

RowA == [id |-> 1, v |-> 12, zid |-> 2]

RowQ == [id |-> 11, v |-> 2, zid |-> 2]

RowP == [id |-> 1, v |-> 2, zid |-> 12]

RowS == [id |-> 11, v |-> 12, zid |-> 12]

RowDomain == {RowA, RowQ, RowP, RowS}

\* Largest number of rows a table starts with.
MaxRows == 2

\* Largest number of Verify calls of one caller.
MaxCalls == 2

\* create table (id int primary key, v int, zid int)
CatalogSingle ==
    <<[name |-> "id", dataType |-> "integer", constraints |-> <<"PRIMARY KEY">>],
      [name |-> "v", dataType |-> "integer", constraints |-> <<>>],
      [name |-> "zid", dataType |-> "integer", constraints |-> <<>>]>>

\* create table (id int, v int, zid int, primary key (id, zid))
CatalogComposite ==
    <<[name |-> "id", dataType |-> "integer", constraints |-> <<"PRIMARY KEY">>],
      [name |-> "v", dataType |-> "integer", constraints |-> <<>>],
      [name |-> "zid", dataType |-> "integer", constraints |-> <<"PRIMARY KEY">>]>>

\* create table (id int primary key unique, v int references ..., zid int):
\* columns with several constraint labels and with other labels only
CatalogConstrained ==
    <<[name |-> "id", dataType |-> "integer", constraints |-> <<"UNIQUE", "PRIMARY KEY">>],
      [name |-> "v", dataType |-> "integer", constraints |-> <<"FOREIGN KEY">>],
      [name |-> "zid", dataType |-> "integer", constraints |-> <<>>]>>

\* create table (id int, v int, zid int): no primary key
CatalogNoKey ==
    <<[name |-> "id", dataType |-> "integer", constraints |-> <<>>],
      [name |-> "v", dataType |-> "integer", constraints |-> <<>>],
      [name |-> "zid", dataType |-> "integer", constraints |-> <<>>]>>

\* The other schema and the other relations of every target's database: a
\* table without a primary key, a table of the same name in another schema,
\* and a view.
OtherSchema == "internal"

NoKeyTable == "audit"

ViewName == "failview"

\* The rows of information_schema.tables.
InformationSchemaTables ==
    {[table_schema |-> SchemaName, table_name |-> TableName, table_type |-> "BASE TABLE"],
     [table_schema |-> SchemaName, table_name |-> NoKeyTable, table_type |-> "BASE TABLE"],
     [table_schema |-> OtherSchema, table_name |-> TableName, table_type |-> "BASE TABLE"],
     [table_schema |-> SchemaName, table_name |-> ViewName, table_type |-> "VIEW"]}

\* The rows of information_schema.columns and the constraints joined to
\* them, for one table.
ColumnsOf(cat, tb) == IF tb[2] = NoKeyTable THEN CatalogNoKey ELSE cat

PkNames(cat) == Range(namesOf(primaryKeysOf(cat)))

PkOf(cat, row) == [n \in PkNames(cat) |-> row[n]]

\* The tables of at most MaxRows rows that satisfy the primary key of cat,
\* in every physical order.
TablesOf(cat) ==
    {t \in Arrangements(RowDomain, MaxRows) :
        \A i, j \in DOMAIN t : PkOf(cat, t[i]) = PkOf(cat, t[j]) => i = j}

RowSet(t) == Range(t)

\* NewConfig's defaults, with the options the callers set.
\* The callers of these runs verify the one table they created: the filters
\* include the schema and the table by name.
ConfigOf(modes, aliases, limit, mod, hashKeys) ==
    [TestModes |-> modes, Aliases |-> aliases, BookendLimit |-> limit, SparseMod |-> mod,
     HashPrimaryKeys |-> hashKeys, TimestampPrecision |-> TimestampPrecisionMilliseconds,
     IncludeSchemas |-> <<SchemaName>>, ExcludeSchemas |-> <<>>,
     IncludeTables |-> <<TableName>>, ExcludeTables |-> <<>>,
     IncludeColumns |-> <<>>, ExcludeColumns |-> <<>>]

NoRet == [results |-> NilResults, err |-> "pending", errors |-> {}]

NoWork == [cur |-> <<>>, columns |-> <<>>, modes |-> <<>>]

\* Nothing kept: the caller has made no call yet.
NoPrev == [content |-> EmptyMap, err |-> "pending"]

\* Nothing written.
NoTable == [header |-> <<>>, rows |-> {}]

NoAdd == [todo |-> {}, cell |-> <<>>, tmp |-> <<>>, state |-> "none"]

Idx == DOMAIN targets

\* The state of a caller about to run Verify(targets) under config, call number n.
CallState(n) ==
    /\ call = n
    /\ pcV = "validate"
    /\ conns = {}
    /\ targetNames = <<>>
    /\ finalResults = NilResults
    /\ done = [i \in Idx |-> "none"]
    /\ waited = {}
    /\ ret = NoRet
    /\ pcB = [i \in Idx |-> "idle"]
    /\ sr = [i \in Idx |-> EmptyMap]
    /\ work = [i \in Idx |-> NoWork]
    /\ tabs = [i \in Idx |-> {}]
    /\ add = [i \in Idx |-> NoAdd]
    /\ prev = NoPrev
    /\ table = NoTable

\* The behaviours of three targets: the first works and the others behave in
\* any way once connected, or all three behave alike, or one of them refuses
\* the connection while the others work.
EnvChoices ==
    {e \in [1..3 -> Healths] :
        \/ e[1] = "ok" /\ e[2] # "connfail" /\ e[3] # "connfail"
        \/ e[1] = e[2] /\ e[2] = e[3]
        \/ \E i \in 1..3 : e[i] = "connfail" /\ \A j \in (1..3) \ {i} : e[j] = "ok"}

\* Three targets named by their hosts, two test modes (or a mode that does
\* not exist); the third target's table may lack the row the others hold.
Init ==
    /\ targets = <<"h1", "h2", "h3">>
    /\ c \in {ConfigOf(<<TestModeFull, TestModeRowCount>>, <<>>, 1, 1, FALSE),
              ConfigOf(<<"bogus">>, <<>>, 1, 1, FALSE),
              ConfigOf(<<TestModeFull, "bogus">>, <<>>, 1, 1, FALSE)}
    /\ catalog = CatalogSingle
    /\ env \in EnvChoices
    /\ db \in {[i \in 1..3 |-> IF i = 3 THEN t ELSE <<RowA>>] : t \in {<<>>, <<RowA>>}}
    /\ plan \in 1..MaxCalls
    /\ plan > 1 => Validate(c) /\ \A i \in 1..3 : env[i] = "ok"
    /\ inserted = <<>>
    /\ CallState(1)

----------------------------------------------------------------------------
(* Verify.                                                                 *)

inputs == <<c, targets, env, catalog, plan>>

branches == <<pcB, sr, work, tabs, add>>

\* err := c.Validate(); if err != nil { return finalResults, err }
VerifyValidate ==
    /\ pcV = "validate"
    /\ IF Validate(c)
       THEN pcV' = "connect" /\ ret' = ret
       ELSE pcV' = "returned" /\ ret' = [results |-> finalResults, err |-> "config", errors |-> {}]
    /\ UNCHANGED <<inputs, prev, table, db, call, inserted, conns, targetNames, finalResults, done, waited,
                   branches>>

\* A naming that takes every alias there is.
TargetNameAnyAlias(config, tgts, i) ==
    IF i \in DOMAIN config.Aliases THEN config.Aliases[i] ELSE tgts[i]

\* The display name of target i.
TargetName(config, tgts, i) ==
    IF Len(config.Aliases) = Len(tgts) THEN config.Aliases[i] ELSE tgts[i]

\* A connection attempt whose error is ignored.
ConnectNeverFails(health) == FALSE

\* pgx.Connect(target) returns an error for a target that refuses the
\* connection.
ConnectFails(health) == health = "connfail"

\* A return that runs no deferred Close.
DeferredClosesSkipped(open) == open

\* The connections left open once the deferred conn.Close() calls of the
\* connections opened so far have run: none.
DeferredCloses(open) == open \ open

\* One iteration of the connection loop: name the target, connect, defer the
\* Close.  A failed connection returns; the deferred Closes then run.
VerifyConnect ==
    /\ pcV = "connect"
    /\ Len(targetNames) < Len(targets)
    /\ LET i == Len(targetNames) + 1
       IN  /\ targetNames' = Append(targetNames, TargetName(c, targets, i))
           /\ IF ConnectFails(env[i])
              THEN /\ conns' = DeferredCloses(conns)
                   /\ pcV' = "returned"
                   /\ ret' = [results |-> finalResults, err |-> "connect", errors |-> {}]
              ELSE /\ conns' = conns \cup {i}
                   /\ UNCHANGED <<pcV, ret>>
    /\ UNCHANGED <<inputs, prev, table, db, call, inserted, finalResults, done, waited, branches>>

\* finalResults = NewResults(...); one goroutine and one done channel per
\* connection.  A goroutine that has not run yet is a goroutine at its first
\* statement, so all are started in one step.
VerifySpawn ==
    /\ pcV = "connect"
    /\ Len(targetNames) = Len(targets)
    /\ finalResults' = NewResults(targetNames, c.TestModes)
    /\ done' = [i \in Idx |-> "open"]
    /\ pcB' = [i \in Idx |-> "fetch"]
    /\ pcV' = "wait"
    /\ UNCHANGED <<inputs, prev, table, db, call, inserted, conns, targetNames, waited, ret, sr, work, tabs,
                   add>>

\* A receive that does not wait for the channel to be closed.
ReceivableAlways(ch) == TRUE

\* A receive from a closed done channel returns.
Receivable(ch) == ch = "closed"

\* <-done, for the channels in the order of doneChannels, which is the
\* iteration order of the conns map: any order.
VerifyWait(i) ==
    /\ pcV = "wait"
    /\ i \notin waited
    /\ Receivable(done[i])
    /\ waited' = waited \cup {i}
    /\ UNCHANGED <<inputs, prev, table, db, call, inserted, pcV, conns, targetNames, finalResults, done, ret,
                   branches>>

\* A Verify that reports success whatever CheckForErrors found.
ReportErrorIgnored(reportErrors) == "nil"

\* The error Verify returns for the errors CheckForErrors reports.
ReportError(reportErrors) == IF Cardinality(reportErrors) > 0 THEN "mismatch" ELSE "nil"

\* reportErrors := finalResults.CheckForErrors(), the return and the deferred
\* Closes.
VerifyCheck ==
    /\ pcV = "wait"
    /\ waited = Idx
    /\ LET reportErrors == CheckForErrors(finalResults)
       IN  ret' = [results |-> finalResults, err |-> ReportError(reportErrors),
                   errors |-> reportErrors]
    /\ conns' = DeferredCloses(conns)
    /\ pcV' = "returned"
    /\ UNCHANGED <<inputs, prev, table, db, call, inserted, targetNames, finalResults, done, waited,
                   branches>>

----------------------------------------------------------------------------
(* runTestsOnTarget, one goroutine per target.                             *)

\* A row of information_schema.tables satisfies a clause.
ClauseHolds(clause, row) ==
    CASE clause.op = "IN" -> row[clause.column] \in Range(clause.values)
      [] clause.op = "NOT IN" -> row[clause.column] \notin Range(clause.values)
      [] OTHER -> row[clause.column] # clause.values[1]

\* The rows the table discovery returns.
SelectTables(query) ==
    {row \in InformationSchemaTables :
        \A k \in DOMAIN query.where : ClauseHolds(query.where[k], row)}

\* A discovery that makes the map of every table and leaves it empty.
DiscoveredTablesNoSentinel(config) ==
    LET found == SelectTables(buildGetTablesQuery(config.IncludeSchemas, config.ExcludeSchemas,
                                                  config.IncludeTables, config.ExcludeTables))
    IN  [s \in {row.table_schema : row \in found} |->
            [t \in {row.table_name : row \in {x \in found : x.table_schema = s}} |->
                EmptyMap]]

\* schemaTableHashes after fetchTargetTableNames has scanned the rows of the
\* table discovery: every mode of every table holds defaultErrorOutput.
DiscoveredTables(config) ==
    LET found == SelectTables(buildGetTablesQuery(config.IncludeSchemas, config.ExcludeSchemas,
                                                  config.IncludeTables, config.ExcludeTables))
    IN  [s \in {row.table_schema : row \in found} |->
            [t \in {row.table_name : row \in {x \in found : x.table_schema = s}} |->
                [m \in Range(config.TestModes) |-> defaultErrorOutput]]]

TablesIn(m) == UNION {{<<s, t>> : t \in DOMAIN m[s]} : s \in DOMAIN m}

\* Where runTestQueriesOnTarget goes after a table: the next table, or the
\* return to runTestsOnTarget, which calls AddResult.
AfterTable(left) == IF left = {} THEN "lock" ELSE "columns"

\* fetchTargetTableNames returns an error: the query fails, or rows.Scan
\* fails on a row.
FetchFails(health, config) ==
    \/ health = "discfail"
    \/ health = "tscanfail" /\ TablesIn(DiscoveredTables(config)) # {}

\* The column rows whose scan fails: one of them, any, or none (0).
ScanFailures(health, rows) == IF health = "cscanfail" THEN DOMAIN rows ELSE {0}

\* tableColumns after the loop over the rows, the row k skipped by continue.
ScannedColumns(rows, k) == [j \in 1..(Len(rows) - (IF k \in DOMAIN rows THEN 1 ELSE 0)) |->
                              IF k \in DOMAIN rows /\ j >= k THEN rows[j + 1] ELSE rows[j]]

\* fetchTargetTableNames; on its error runTestsOnTarget closes done and returns.
FetchTargetTableNames(i) ==
    /\ pcB[i] = "fetch"
    /\ IF FetchFails(env[i], c)
       THEN /\ pcB' = [pcB EXCEPT ![i] = "close"]
            /\ UNCHANGED <<sr, tabs>>
       ELSE /\ sr' = [sr EXCEPT ![i] = DiscoveredTables(c)]
            /\ tabs' = [tabs EXCEPT ![i] = TablesIn(DiscoveredTables(c))]
            /\ pcB' = [pcB EXCEPT ![i] = AfterTable(TablesIn(DiscoveredTables(c)))]
    /\ UNCHANGED <<inputs, prev, table, db, call, inserted, pcV, conns, targetNames, finalResults, done,
                   waited, ret, work, add>>

\* The column discovery of the next table (in map order: any); on its error
\* the table is left as it is, and a row whose scan fails is skipped.
QueryColumns(i) ==
    /\ pcB[i] = "columns"
    /\ \E tb \in tabs[i] :
          /\ tabs' = [tabs EXCEPT ![i] = tabs[i] \ {tb}]
          /\ IF env[i] = "colfail" \/ c.TestModes = <<>>
             THEN /\ pcB' = [pcB EXCEPT ![i] = AfterTable(tabs[i] \ {tb})]
                  /\ UNCHANGED work
             ELSE /\ \E k \in ScanFailures(env[i], ColumnsOf(catalog, tb)) :
                        work' = [work EXCEPT ![i] =
                                    [cur |-> tb,
                                     columns |-> ScannedColumns(ColumnsOf(catalog, tb), k),
                                     modes |-> c.TestModes]]
                  /\ pcB' = [pcB EXCEPT ![i] = "tests"]
    /\ UNCHANGED <<inputs, prev, table, db, call, inserted, pcV, conns, targetNames, finalResults, done,
                   waited, ret, sr, add>>

\* A scan whose error does not skip the assignment: the empty testOutput
\* is stored.
ScanOutcomeNoContinue(health, q, rows) ==
    IF health = "qfail" \/ (health # "norows" /\ QueryFails(q, rows))
    THEN [err |-> FALSE, output |-> <<>>]
    ELSE IF health = "norows" THEN [err |-> FALSE, output |-> noRowsOutput]
    ELSE [err |-> FALSE, output |-> QueryValue(q, rows).text]

\* What conn.QueryRow(query).Scan(&testOutput) leaves for target i:
\* the text of the value, the "no rows" sentinel, or an error.
ScanOutcome(health, q, rows) ==
    IF health = "qfail" \/ (health # "norows" /\ QueryFails(q, rows))
    THEN [err |-> TRUE, output |-> <<>>]
    ELSE IF health = "norows" THEN [err |-> FALSE, output |-> noRowsOutput]
    ELSE [err |-> FALSE, output |-> QueryValue(q, rows).text]

\* One iteration of the loop over c.TestModes: build the query, run it, and
\* store the output unless the scan failed.
RunTestQuery(i) ==
    /\ pcB[i] = "tests"
    /\ LET w == work[i]
           testMode == Head(w.modes)
           query == buildQuery(c, w.cur[1], w.cur[2], w.columns, testMode)
           res == ScanOutcome(env[i], query, db[i])
       IN  /\ sr' = IF res.err THEN sr
                    ELSE [sr EXCEPT ![i][w.cur[1]][w.cur[2]][testMode] = res.output]
           /\ work' = [work EXCEPT ![i].modes = Tail(w.modes)]
           /\ pcB' = [pcB EXCEPT ![i] =
                         IF Tail(w.modes) = <<>> THEN AfterTable(tabs[i]) ELSE "tests"]
    /\ UNCHANGED <<inputs, prev, table, db, call, inserted, pcV, conns, targetNames, finalResults, done,
                   waited, ret, tabs, add>>

----------------------------------------------------------------------------
(* AddResult, statement by statement.                                      *)

\* A Lock that never waits.
MutexFreeAlways(r) == TRUE

\* r.mutex.Lock() returns only when the mutex is not held.
MutexFree(r) == r.mutex = 0

\* The cells the nested range loops may visit next: the modes of the current
\* table first, then the tables of the current schema, then any schema.
NextCells(a) ==
    LET sameTable == {x \in a.todo : a.cell # <<>> /\ x[1] = a.cell[1] /\ x[2] = a.cell[2]}
        sameSchema == {x \in a.todo : a.cell # <<>> /\ x[1] = a.cell[1]}
    IN  IF sameTable # {} THEN sameTable
        ELSE IF sameSchema # {} THEN sameSchema
        ELSE a.todo

AddResultLock(i) ==
    /\ pcB[i] = "lock"
    /\ MutexFree(finalResults)
    /\ finalResults' = [finalResults EXCEPT !.mutex = i]
    /\ add' = [add EXCEPT ![i] =
                  [todo |-> CellsOf(sr[i]), cell |-> <<>>, tmp |-> <<>>, state |-> "running"]]
    /\ pcB' = [pcB EXCEPT ![i] = IF CellsOf(sr[i]) = {} THEN "unlock" ELSE "merge"]
    /\ UNCHANGED <<inputs, prev, table, db, call, inserted, pcV, conns, targetNames, done, waited, ret, sr,
                   work, tabs>>

\* The maps of the next cell are made where absent and the cell's target
\* list is read: the argument of append.
AddResultRead(i) ==
    /\ pcB[i] = "merge"
    /\ \E cell \in NextCells(add[i]) :
          LET content == EnsureCell(finalResults.content, cell[1], cell[2], cell[3])
              output == sr[i][cell[1]][cell[2]][cell[3]]
          IN  /\ finalResults' = [finalResults EXCEPT !.content = content]
              /\ add' = [add EXCEPT ![i].cell = cell,
                                    ![i].tmp = TargetList(content, cell[1], cell[2], cell[3],
                                                          output)]
    /\ pcB' = [pcB EXCEPT ![i] = "append"]
    /\ UNCHANGED <<inputs, prev, table, db, call, inserted, pcV, conns, targetNames, done, waited, ret, sr,
                   work, tabs>>

\* The result of append is stored as the cell's target list.
AddResultAppend(i) ==
    /\ pcB[i] = "append"
    /\ LET cell == add[i].cell
           output == sr[i][cell[1]][cell[2]][cell[3]]
       IN  /\ finalResults' =
                 [finalResults EXCEPT !.content =
                     StoreList(finalResults.content, cell[1], cell[2], cell[3], output,
                               Append(add[i].tmp, targetNames[i]))]
           /\ add' = [add EXCEPT ![i].todo = add[i].todo \ {cell}]
           /\ pcB' = [pcB EXCEPT ![i] = IF add[i].todo \ {cell} = {} THEN "unlock" ELSE "merge"]
    /\ UNCHANGED <<inputs, prev, table, db, call, inserted, pcV, conns, targetNames, done, waited, ret, sr,
                   work, tabs>>

\* The deferred r.mutex.Unlock().
AddResultUnlock(i) ==
    /\ pcB[i] = "unlock"
    /\ finalResults' = [finalResults EXCEPT !.mutex = 0]
    /\ add' = [add EXCEPT ![i].state = "returned"]
    /\ pcB' = [pcB EXCEPT ![i] = "close"]
    /\ UNCHANGED <<inputs, prev, table, db, call, inserted, pcV, conns, targetNames, done, waited, ret, sr,
                   work, tabs>>

\* A close that leaves the channel as it is.
CloseNothing(ch) == ch

\* close(done): an open channel becomes closed; closing a closed channel
\* panics.
Close(ch) == IF ch = "open" THEN "closed" ELSE "panic"

\* close(done); return
CloseDone(i) ==
    /\ pcB[i] = "close"
    /\ done' = [done EXCEPT ![i] = Close(done[i])]
    /\ pcB' = [pcB EXCEPT ![i] = "exit"]
    /\ UNCHANGED <<inputs, prev, table, db, call, inserted, pcV, conns, targetNames, finalResults, waited,
                   ret, sr, work, tabs, add>>

----------------------------------------------------------------------------
(* The caller.                                                             *)

\* One row is inserted into the first target between two calls.
\* Alphabetical rank of the test modes that occur.
ModeRank(m) ==
    CASE m = "bogus" -> 1 [] m = TestModeBookend -> 2 [] m = TestModeFull -> 3
      [] m = TestModeRowCount -> 4 [] OTHER -> 5

RECURSIVE insertMode(_, _)
insertMode(x, s) ==
    IF s = <<>> THEN <<x>>
    ELSE IF ModeRank(x) < ModeRank(Head(s)) THEN <<x>> \o s
    ELSE <<Head(s)>> \o insertMode(x, Tail(s))

\* sort.Strings(r.testModes)
RECURSIVE sortModes(_)
sortModes(s) ==
    IF s = <<>> THEN <<>>
    ELSE insertMode(s[Len(s)], sortModes(SubSeq(s, 1, Len(s) - 1)))

\* The targets in the lists of a table of the content: the keys of
\* combinedModesOutputs.
RowTargets(r, s, t) ==
    UNION {UNION {Range(r.content[s][t][m][o]) : o \in DOMAIN r.content[s][t][m]} :
              m \in DOMAIN r.content[s][t]}

\* combinedModesOutputs[target][mode], or the error marker where there is
\* none.
RowCell(r, s, t, target, m) ==
    IF /\ m \in DOMAIN r.content[s][t]
       /\ \E o \in DOMAIN r.content[s][t][m] : target \in Range(r.content[s][t][m][o])
    THEN CHOOSE o \in DOMAIN r.content[s][t][m] : target \in Range(r.content[s][t][m][o])
    ELSE defaultErrorOutput

\* The header and the rows of the table: schema, table, one cell per mode
\* of the sorted mode list, target.  The rows are written in the order of
\* sort.Slice over their columns, which the set of rows determines.
TableOf(r, modes) ==
    [header |-> <<"schema", "table">> \o modes \o <<"target">>,
     rows |-> UNION {UNION {{[schema |-> s, table |-> t,
                              cells |-> [k \in DOMAIN modes |-> RowCell(r, s, t, target, modes[k])],
                              target |-> target] :
                                target \in RowTargets(r, s, t)} :
                            t \in DOMAIN r.content[s]} :
                     s \in DOMAIN r.content}]

\* The caller writes the returned Results as a table.  The receiver is a
\* copy of the Results whose testModes shares its array with the Results and
\* with the TestModes of the Config it was made from, and is sorted in place.
WriteAsTable ==
    /\ pcV = "returned"
    /\ ~ret.results.nil
    /\ ret' = [ret EXCEPT !.results.testModes = sortModes(ret.results.testModes)]
    /\ finalResults' = [finalResults EXCEPT !.testModes = sortModes(finalResults.testModes)]
    /\ c' = [c EXCEPT !.TestModes = sortModes(c.TestModes)]
    /\ table' = TableOf(ret.results, sortModes(ret.results.testModes))
    /\ UNCHANGED <<targets, env, catalog, plan, prev, db, call, inserted, pcV, conns,
                   targetNames, done, waited, branches>>

\* The content of a report with every target list in the order of the
\* targets, and the verdict: what the caller compares between calls.
Kept(r) ==
    [content |->
        [s \in DOMAIN r.results.content |->
            [t \in DOMAIN r.results.content[s] |->
                [m \in DOMAIN r.results.content[s][t] |->
                    [o \in DOMAIN r.results.content[s][t][m] |->
                        SeqFilter(targetNames, Range(r.results.content[s][t][m][o]))]]]],
     err |-> r.err]

InsertRow ==
    /\ pcV = "returned"
    /\ call < plan
    /\ inserted = <<>>
    /\ \E row \in RowDomain :
          /\ \A j \in DOMAIN db[1] : PkOf(catalog, db[1][j]) # PkOf(catalog, row)
          /\ db' = [db EXCEPT ![1] = Append(db[1], row)]
          /\ inserted' = <<row>>
    /\ pcV' = "idle"
    /\ UNCHANGED <<inputs, prev, table, call, conns, targetNames, finalResults, done, waited, ret, branches>>

\* The caller calls Verify again with the same targets and configuration.
CallVerify ==
    /\ pcV \in {"returned", "idle"}
    /\ call < plan
    /\ call' = call + 1
    /\ pcV' = "validate"
    /\ conns' = {}
    /\ targetNames' = <<>>
    /\ finalResults' = NilResults
    /\ done' = [i \in Idx |-> "none"]
    /\ waited' = {}
    /\ ret' = NoRet
    /\ pcB' = [i \in Idx |-> "idle"]
    /\ sr' = [i \in Idx |-> EmptyMap]
    /\ work' = [i \in Idx |-> NoWork]
    /\ tabs' = [i \in Idx |-> {}]
    /\ add' = [i \in Idx |-> NoAdd]
    /\ prev' = Kept(ret)
    /\ table' = NoTable
    /\ UNCHANGED <<inputs, db, inserted>>

Next ==
    \/ VerifyValidate
    \/ VerifyConnect
    \/ VerifySpawn
    \/ \E i \in Idx : VerifyWait(i)
    \/ VerifyCheck
    \/ \E i \in Idx : FetchTargetTableNames(i)
    \/ \E i \in Idx : QueryColumns(i)
    \/ \E i \in Idx : RunTestQuery(i)
    \/ \E i \in Idx : AddResultLock(i)
    \/ \E i \in Idx : AddResultRead(i)
    \/ \E i \in Idx : AddResultAppend(i)
    \/ \E i \in Idx : AddResultUnlock(i)
    \/ \E i \in Idx : CloseDone(i)
    \/ WriteAsTable
    \/ InsertRow
    \/ CallVerify

Spec == Init /\ [][Next]_vars

----------------------------------------------------------------------------
(* The runs of the data tests: two targets named by aliases, one test mode *)
(* per run, tables of any content in any physical order.  Where the two    *)
(* tables start with the same rows the caller verifies twice and may       *)
(* insert a row in between.  A few runs on misbehaving targets complete    *)
(* the paths of Verify.                                                    *)

DataConfigs ==
    {ConfigOf(<<m>>, <<"pg", "crdb">>, 1, 1, FALSE) :
        m \in {TestModeFull, TestModeSparse, TestModeBookend, TestModeRowCount}}
    \cup {ConfigOf(<<TestModeSparse>>, <<"pg", "crdb">>, 1, 2, FALSE)}

InitData ==
    /\ targets = <<"h1", "h2">>
    /\ catalog \in {CatalogSingle, CatalogComposite}
    /\ \/ /\ c \in DataConfigs
          /\ env = [i \in 1..2 |-> "ok"]
          /\ db \in [1..2 -> TablesOf(catalog)]
          /\ plan = IF RowSet(db[1]) = RowSet(db[2]) THEN MaxCalls ELSE 1
       \/ /\ c = ConfigOf(<<TestModeFull>>, <<"pg", "crdb">>, 1, 1, FALSE)
          /\ env \in [1..2 -> Healths] \ {[i \in 1..2 |-> "ok"]}
          /\ env[1] = "ok" \/ env[1] = env[2]
          /\ db = [i \in 1..2 |-> <<RowA>>]
          /\ plan = 1
       \/ /\ c = ConfigOf(<<"bogus">>, <<"pg", "crdb">>, 1, 1, FALSE)
          /\ env = [i \in 1..2 |-> "ok"]
          /\ db = [i \in 1..2 |-> <<RowA>>]
          /\ plan = 1
    /\ inserted = <<>>
    /\ CallState(1)

SpecData == InitData /\ [][Next]_vars

----------------------------------------------------------------------------
(* The runs over several tables: two targets whose databases hold the     *)
(* tables of InformationSchemaTables, each with the same single row, and   *)
(* configurations with any of a few include and exclude lists.  The second *)
(* target works, or fails every fingerprint query.                         *)

FilterConfigs ==
    {[ConfigOf(<<TestModeFull, TestModeRowCount>>, <<>>, 1, 1, FALSE)
         EXCEPT !.IncludeSchemas = is, !.ExcludeSchemas = es,
                !.IncludeTables = it, !.ExcludeTables = et] :
        is \in {<<>>, <<SchemaName>>},
        es \in {<<>>, <<SchemaName>>},
        it \in {<<>>, <<TableName>>, <<NoKeyTable, TableName>>},
        et \in {<<>>, <<TableName>>}}

InitTables ==
    /\ targets = <<"h1", "h2">>
    /\ c \in FilterConfigs
    /\ catalog = CatalogSingle
    /\ env \in {<<"ok", "ok">>, <<"ok", "qfail">>}
    /\ db = [i \in 1..2 |-> <<RowA>>]
    /\ plan = IF c.IncludeTables = <<TableName>> /\ env[2] = "ok" THEN MaxCalls ELSE 1
    /\ inserted = <<>>
    /\ CallState(1)

SpecTables == InitTables /\ [][Next]_vars

----------------------------------------------------------------------------
(* The runs with scan failures: two tables are discovered, and on the      *)
(* second target the scan of a row fails, in the table discovery or in     *)
(* the column discovery of every table.                                    *)

InitScan ==
    /\ targets = <<"h1", "h2">>
    /\ c = [ConfigOf(<<TestModeFull, TestModeRowCount>>, <<>>, 1, 1, FALSE)
               EXCEPT !.IncludeTables = <<>>]
    /\ catalog \in {CatalogSingle, CatalogComposite}
    /\ env \in {<<"ok", h>> : h \in ScanHealths \cup {"ok"}}
    /\ db = [i \in 1..2 |-> <<RowA>>]
    /\ plan = IF env[2] = "ok" /\ catalog = CatalogSingle THEN MaxCalls ELSE 1
    /\ inserted = <<>>
    /\ CallState(1)

SpecScan == InitScan /\ [][Next]_vars

----------------------------------------------------------------------------
(* The runs over column orders: the column discovery reports the columns  *)
(* of the table in any order, the primary key is single or composite, and  *)
(* the run has one hashing mode, with or without hashed primary keys, and  *)
(* as many aliases as targets, or fewer, or more.                          *)

\* Every order of a column list.
Shuffles(columns) ==
    {[k \in DOMAIN columns |-> columns[f[k]]] :
        f \in {g \in [DOMAIN columns -> DOMAIN columns] :
                  \A x, y \in DOMAIN columns : g[x] = g[y] => x = y}}

\* Alias lists for two targets: one alias each, none, too few, too many.
AliasChoices == {<<"pg", "crdb">>, <<>>, <<"pg">>, <<"pg", "crdb", "extra">>}

InitColumns ==
    /\ targets = <<"h1", "h2">>
    /\ c \in {ConfigOf(<<m>>, al, 1, 1, h) :
                 m \in {TestModeFull, TestModeSparse, TestModeBookend}, h \in BOOLEAN,
                 al \in AliasChoices}
    /\ catalog \in Shuffles(CatalogSingle) \cup Shuffles(CatalogComposite)
    /\ env = <<"ok", "ok">>
    /\ db = [i \in 1..2 |-> <<RowA>>]
    /\ plan = IF catalog = CatalogSingle THEN MaxCalls ELSE 1
    /\ inserted = <<>>
    /\ CallState(1)

SpecColumns == InitColumns /\ [][Next]_vars

----------------------------------------------------------------------------
(* The runs under a column filter: the configuration names columns to      *)
(* include or to exclude, among them key columns, all columns, and no      *)
(* column of the table; one configuration has no filter and two modes.     *)

ScopeConfigs ==
    {[ConfigOf(<<m>>, <<"pg", "crdb">>, 1, 1, FALSE)
         EXCEPT !.IncludeColumns = ic, !.ExcludeColumns = ec] :
        m \in {TestModeFull, TestModeSparse, TestModeBookend},
        ic \in {<<>>, <<"v">>, <<"other">>},
        ec \in {<<>>, <<"id">>, <<"v">>, <<"id", "v", "zid">>}}
    \cup {ConfigOf(<<TestModeRowCount, TestModeFull>>, <<"pg", "crdb">>, 1, 1, FALSE)}

InitScope ==
    /\ targets = <<"h1", "h2">>
    /\ c \in ScopeConfigs
    /\ catalog \in {CatalogSingle, CatalogComposite, CatalogConstrained}
    /\ env = <<"ok", "ok">>
    /\ db \in {<<<<RowA>>, <<RowA>>>>, <<<<RowA, RowS>>, <<RowS, RowA>>>>}
    /\ plan = IF c.ExcludeColumns = <<"id">> /\ catalog = CatalogSingle THEN MaxCalls ELSE 1
    /\ inserted = <<>>
    /\ CallState(1)

SpecScope == InitScope /\ [][Next]_vars

----------------------------------------------------------------------------
(* The runs over timestamps: the table has a column of type timestamp     *)
(* with time zone, each target holds one row whose timestamp was written   *)
(* as a literal with a UTC offset, and the configuration names a           *)
(* truncation precision, among them one that date_trunc does not know.     *)

\* create table (id int primary key, v timestamp with time zone, zid int)
CatalogTime ==
    <<[name |-> "id", dataType |-> "integer", constraints |-> <<"PRIMARY KEY">>],
      [name |-> "v", dataType |-> "TIMESTAMP WITH TIME ZONE", constraints |-> <<>>],
      [name |-> "zid", dataType |-> "integer", constraints |-> <<>>]>>

\* Microseconds in a minute.
MinuteMicros == 60000000

\* Timestamp literals: the local time in microseconds since the epoch and
\* the UTC offset in minutes.
TimeLiterals ==
    {[local |-> 2000000 + d, offset |-> 0] : d \in {0, 1, 999, 1000, 1000000}}
    \cup {[local |-> 2000000 + MinuteMicros, offset |-> 1],
          [local |-> 2000000, offset |-> -1]}

\* The instant a timestamp with time zone column stores for a literal.
Instant(lit) == lit.local - lit.offset * MinuteMicros

TimeRow(lit) == [id |-> 1, v |-> Instant(lit), zid |-> 2]

TimeConfigs ==
    {[ConfigOf(<<TestModeFull>>, <<"pg", "crdb">>, 1, 1, FALSE)
         EXCEPT !.TimestampPrecision = p] :
        p \in {"microseconds", TimestampPrecisionMilliseconds, "second", "fortnight"}}

InitTime ==
    /\ targets = <<"h1", "h2">>
    /\ c \in TimeConfigs
    /\ catalog = CatalogTime
    /\ env = <<"ok", "ok">>
    /\ \E a, b \in TimeLiterals : db = <<<<TimeRow(a)>>, <<TimeRow(b)>>>>
    /\ plan = IF db[1] = db[2] /\ c.TimestampPrecision = TimestampPrecisionMilliseconds
              THEN MaxCalls ELSE 1
    /\ inserted = <<>>
    /\ CallState(1)

SpecTime == InitTime /\ [][Next]_vars

----------------------------------------------------------------------------
(* Scheduling.  The goroutine of Verify and the goroutine of every target  *)
(* keep running while they can take a step: the Go scheduler starves no    *)
(* runnable goroutine, a sync.Mutex is handed to a waiting goroutine, and  *)
(* every database call is taken to return.  The caller may stop between    *)
(* two calls.                                                              *)

VerifyStep ==
    \/ VerifyValidate
    \/ VerifyConnect
    \/ VerifySpawn
    \/ \E i \in Idx : VerifyWait(i)
    \/ VerifyCheck

BranchStep(i) ==
    \/ FetchTargetTableNames(i)
    \/ QueryColumns(i)
    \/ AddResultLock(i)
    \/ AddResultRead(i)
    \/ AddResultAppend(i)
    \/ AddResultUnlock(i)
    \/ CloseDone(i)

\* Weak fairness of RunTestQuery(i), with its enabling condition written
\* out: the step is possible exactly while the branch is in the loop over
\* the test modes, and it always removes a mode from the work left.
QueryReturns(i) ==
    []<>(pcB[i] # "tests") \/ []<><<RunTestQuery(i)>>_vars

\* The runs whose scheduling is checked: the third target holds the same
\* row as the others, and misbehaves in any way or works like the others.
InitLive ==
    /\ Init
    /\ db[3] = <<RowA>>
    /\ env[1] = env[2]

SpecLive ==
    /\ InitLive
    /\ [][Next]_vars
    /\ WF_vars(VerifyStep)
    /\ \A i \in 1..3 : WF_vars(BranchStep(i)) /\ QueryReturns(i)

----------------------------------------------------------------------------
(* Properties.                                                             *)

\* A Verify call has returned after its consistency check.
Checked == pcV = "returned" /\ ~ret.results.nil

\* Validation and every connection of the call succeed.
Connectable == Validate(c) /\ \A i \in Idx : env[i] # "connfail"

\* The errors of a list that are about a cell.
ErrorsAbout(errors, cell) ==
    {e \in errors : e.args[1] = <<cell[1]>> /\ e.args[2] = <<cell[2]>> /\ e.args[3] = <<cell[3]>>}

Outputs(r, cell) == r.content[cell[1]][cell[2]][cell[3]]

\* A cell with exactly one output, which as many targets reported as the
\* run has and which is not the error sentinel.
CellConsistent(r, cell) ==
    /\ Cardinality(DOMAIN Outputs(r, cell)) = 1
    /\ \A o \in DOMAIN Outputs(r, cell) :
          Len(Outputs(r, cell)[o]) = Len(r.targetNames) /\ o # defaultErrorOutput

\* C1: once validation and all connections have succeeded, Verify returns a
\* non-nil error if and only if CheckForErrors on the Results it returns
\* reports at least one error.
C1_ErrorIffCheckForErrors ==
    (pcV = "returned" /\ Connectable) =>
        /\ ~ret.results.nil
        /\ (ret.err # "nil") <=> (CheckForErrors(ret.results) # {})

C1_Witness ==
    /\ pcV = "returned" /\ Connectable
    /\ ret.err = "mismatch"
    /\ CheckForErrors(ret.results) # {}

\* C2: the errors CheckForErrors returns are empty if and only if every cell
\* of the results is consistent (one output, reported by all targets, not
\* the error sentinel); every inconsistent cell has at least one error of
\* its own in the list, and a consistent cell has none.
C2_ErrorsForEveryOffendingCell ==
    Checked =>
        /\ (ret.errors = {}) <=>
              (\A cell \in CellsOf(ret.results.content) : CellConsistent(ret.results, cell))
        /\ \A cell \in CellsOf(ret.results.content) :
              CellConsistent(ret.results, cell) <=> (ErrorsAbout(ret.errors, cell) = {})

C2_Witness ==
    /\ Checked
    /\ \E c1, c2 \in CellsOf(ret.results.content) :
          /\ c1 # c2
          /\ ~CellConsistent(ret.results, c1) /\ ErrorsAbout(ret.errors, c1) # {}
          /\ ~CellConsistent(ret.results, c2) /\ ErrorsAbout(ret.errors, c2) # {}

DivergenceError(cell, n) ==
    Errorf("%s.%s test %s has %d outputs", <<<<cell[1]>>, <<cell[2]>>, <<cell[3]>>, ToText(n)>>)

IncompleteError(cell, n, want) ==
    Errorf("%s.%s test %s has %d targets (should be %d)",
           <<<<cell[1]>>, <<cell[2]>>, <<cell[3]>>, ToText(n), ToText(want)>>)

\* An error names a text when the text is one of its arguments.
Names(e, text) == text \in Range(e.args)

\* The number of targets that reported any output for a cell.
RECURSIVE SumLen(_)
SumLen(outputs) ==
    IF DOMAIN outputs = {} THEN 0
    ELSE LET o == CHOOSE x \in DOMAIN outputs : TRUE
         IN  Len(outputs[o]) + SumLen([x \in (DOMAIN outputs) \ {o} |-> outputs[x]])

Healthy == \A i \in Idx : env[i] = "ok"

\* The tables of all targets hold the same rows.
SameRows == \A i, j \in Idx : RowSet(db[i]) = RowSet(db[j])

\* The query of the (single) mode of a data run on the table.
ModeQuery(testMode) == buildQuery(c, SchemaName, TableName, catalog, testMode)

\* C5 as stated: when the tables hold the same rows on all targets, in
\* whatever physical order and under whatever primary key, every mode has
\* one output for all targets and Verify returns a nil error.
C5_SameRowsVerifyPasses ==
    (pcV = "returned" /\ Connectable /\ Healthy /\ SameRows) =>
        /\ ret.err = "nil"
        /\ \A cell \in CellsOf(ret.results.content) :
              Cardinality(DOMAIN Outputs(ret.results, cell)) = 1

\* The second call of a caller that inserted a row after the first has
\* returned.
ReturnedAfterInsert ==
    /\ pcV = "returned" /\ call = 2 /\ inserted # <<>>
    /\ Connectable /\ Healthy /\ Len(c.TestModes) = 1

\* The row is among the first or the last BookendLimit rows of the first
\* target's table in the order of the bookend query.
WithinBookends(row) ==
    LET q == ModeQuery(TestModeBookend)
    IN  row \in Range(Prefix(OrderRows(db[1], q, FALSE), c.BookendLimit))
                \cup Range(Prefix(OrderRows(db[1], q, TRUE), c.BookendLimit))

\* C6 as stated: after a row is inserted into one of two targets whose
\* tables held the same rows, the next Verify returns an error in the full
\* and rowcount modes, in the sparse mode with modulo 1, and in the bookend
\* mode when the row is among the first or last BookendLimit rows.
C6_InsertedRowDetected ==
    ReturnedAfterInsert =>
        /\ c.TestModes[1] \in {TestModeFull, TestModeRowCount} => ret.err # "nil"
        /\ (c.TestModes[1] = TestModeSparse /\ c.SparseMod = 1) => ret.err # "nil"
        /\ (c.TestModes[1] = TestModeBookend /\ WithinBookends(inserted[1])) => ret.err # "nil"

\* The row values of a table restricted to the columns a query hashes.
HashedRows(q, rows) ==
    {[n \in {q.hashed[k].name : k \in DOMAIN q.hashed} |-> rows[j][n]] : j \in DOMAIN rows}

\* C7 as stated: equal full-mode outputs on two targets imply that the two
\* tables hold the same rows with the same values in every hashed column.
C7_EqualFullOutputsSameRows ==
    (Checked /\ Connectable /\ Healthy /\ c.TestModes = <<TestModeFull>>) =>
        \A i, j \in Idx :
            QueryValue(ModeQuery(TestModeFull), db[i]) = QueryValue(ModeQuery(TestModeFull), db[j])
                => HashedRows(ModeQuery(TestModeFull), db[i])
                       = HashedRows(ModeQuery(TestModeFull), db[j])

\* C8 as stated: whatever path Verify returns on, the Results it returns are
\* not nil, so WriteAsTable can be called on them.
C8_ResultsReturnedOnEveryPath ==
    pcV = "returned" => ~ret.results.nil

\* How many times a name occurs in a target list.
Count(list, name) == Cardinality({k \in DOMAIN list : list[k] = name})

\* The target list of an output of a cell, empty where AddResult made none.
ListOf(r, cell, output) ==
    IF cell \in CellsOf(r.content) /\ output \in DOMAIN Outputs(r, cell)
    THEN Outputs(r, cell)[output]
    ELSE <<>>

\* The targets whose AddResult has returned and whose SingleResult held the
\* output for the cell.
Holders(cell, output) ==
    {i \in Idx : /\ add[i].state = "returned"
                 /\ cell \in CellsOf(sr[i])
                 /\ sr[i][cell[1]][cell[2]][cell[3]] = output}

\* Every output a target list may be about: the stored ones and the ones the
\* targets hold.
KnownOutputs(cell) ==
    (IF cell \in CellsOf(finalResults.content)
     THEN DOMAIN Outputs(finalResults, cell) ELSE {})
    \cup {sr[i][cell[1]][cell[2]][cell[3]] : i \in {j \in Idx : cell \in CellsOf(sr[j])}}

\* C9: whenever no AddResult call is in progress, the target list of every
\* cell and output holds exactly the names of the targets whose AddResult
\* has returned and whose SingleResult held that output, each name once.
C9_AddResultListsExact ==
    (pcV \in {"wait", "returned"} /\ \A i \in Idx : add[i].state # "running") =>
        \A m \in Range(c.TestModes) :
            LET cell == <<SchemaName, TableName, m>>
            IN  \A output \in KnownOutputs(cell) :
                    /\ Range(ListOf(finalResults, cell, output)) \subseteq Range(targetNames)
                    /\ \A i \in Idx :
                          Count(ListOf(finalResults, cell, output), targetNames[i])
                              = Cardinality({j \in Holders(cell, output) :
                                                targetNames[j] = targetNames[i]})

\* All three targets have merged the same output of a cell, and one of them
\* had to wait for the mutex on the way.
C9_Witness ==
    /\ pcV = "wait"
    /\ \A i \in Idx : add[i].state = "returned"
    /\ \E cell \in CellsOf(finalResults.content) :
          \E output \in DOMAIN Outputs(finalResults, cell) :
              Len(Outputs(finalResults, cell)[output]) = 3

\* C10: a target's results are merged only after all of its table and mode
\* queries have finished; CheckForErrors runs only after every branch has
\* closed its done channel; and the Results it has checked are not changed
\* by any AddResult afterwards.
C10_JoinBarriers ==
    /\ \A i \in Idx :
          pcB[i] \in {"lock", "merge", "append", "unlock"} =>
              tabs[i] = {} /\ work[i].modes = <<>>
    /\ Checked =>
          /\ \A i \in Idx : pcB[i] = "exit" /\ done[i] = "closed"
          /\ ret.results.content = finalResults.content
          /\ ret.errors = CheckForErrors(finalResults)

\* Verify has returned after three branches ran their queries and merged.
C10_Witness ==
    /\ Checked
    /\ \A i \in Idx : add[i].state = "returned" /\ pcB[i] = "exit"
    /\ Cardinality(Idx) = 3
    /\ CellsOf(ret.results.content) # {}

\* C11: every target branch closes its done channel exactly once on every
\* path (a branch that has ended has closed it, and no close hits a closed
\* channel), and a Verify that waits for its branches eventually returns.
C11_BranchesSignalOnceAndVerifyReturns ==
    /\ [](\A i \in Idx : /\ done[i] # "panic"
                         /\ pcB[i] = "exit" => done[i] = "closed")
    /\ (pcV = "wait") ~> (pcV = "returned")

\* Verify has returned after one branch ended on a discovery failure and
\* another one merged its results.
C11_Witness ==
    /\ Checked
    /\ \E i, j \in Idx :
          /\ env[i] = "discfail" /\ pcB[i] = "exit" /\ done[i] = "closed"
          /\ add[j].state = "returned" /\ done[j] = "closed"

\* C12: while Verify waits for its branches every target has its connection,
\* a branch that still has queries to run has its connection open, and once
\* Verify has returned, on any path, no connection is left open.
C12_ConnectionsHeldAndReleased ==
    /\ pcV = "wait" => conns = Idx
    /\ \A i \in Idx : pcB[i] \in {"fetch", "columns", "tests"} => i \in conns
    /\ pcV = "connect" => conns = 1..Len(targetNames)
    /\ pcV = "returned" => conns = {}

\* Verify has returned the connection error of the third target after the
\* first two were connected.
C12_Witness ==
    /\ pcV = "returned"
    /\ ret.err = "connect"
    /\ Len(targetNames) = 3
    /\ conns = {}

\* The test modes of the configuration are all among the four known ones.
KnownModes ==
    Range(c.TestModes) \subseteq
        {TestModeFull, TestModeBookend, TestModeSparse, TestModeRowCount}

\* C13: a test mode outside full, bookend, sparse and rowcount makes Verify
\* return the configuration error with no connection opened, no target named
\* and no branch started; a list of known modes passes validation.
C13_UnknownModeRejectedBeforeIO ==
    /\ ~KnownModes =>
          /\ pcV \in {"validate", "returned"}
          /\ conns = {} /\ targetNames = <<>>
          /\ \A i \in Idx : pcB[i] = "idle" /\ sr[i] = EmptyMap
          /\ pcV = "returned" => ret.err = "config"
    /\ (KnownModes /\ pcV = "returned") => ret.err # "config"

\* Verify has returned the configuration error.
C13_Witness ==
    /\ pcV = "returned"
    /\ ret.err = "config"
    /\ c.TestModes = <<TestModeFull, "bogus">>

\* C14: when a target refuses the connection, Verify returns the connection
\* error, which is not the error of a data mismatch, and no branch runs a
\* discovery or fingerprint query on any target.
C14_ConnectionFailureAbortsCall ==
    (KnownModes /\ \E i \in Idx : env[i] = "connfail") =>
        /\ pcV \in {"validate", "connect", "returned"}
        /\ \A i \in Idx : pcB[i] = "idle" /\ sr[i] = EmptyMap
        /\ finalResults = NilResults
        /\ pcV = "returned" => ret.err = "connect" /\ ret.err # "mismatch"

\* Verify has returned the connection error of the second target; the first
\* target was connected and ran nothing.
C14_Witness ==
    /\ pcV = "returned"
    /\ ret.err = "connect"
    /\ env[1] = "ok" /\ env[2] = "connfail"
    /\ pcB[1] = "idle"

\* The names found in the target lists of the Results.
MergedNames(r) ==
    UNION {UNION {Range(Outputs(r, cell)[o]) : o \in DOMAIN Outputs(r, cell)} :
              cell \in CellsOf(r.content)}

\* The targets whose table discovery fails contribute nothing and every
\* other target has merged its results when Verify returns.
OnlyFailedBranchesEnd ==
    (Checked /\ \E i \in Idx : env[i] = "discfail") =>
        \A i \in Idx :
            IF env[i] = "discfail"
            THEN add[i].state = "none" /\ targetNames[i] \notin MergedNames(ret.results)
            ELSE add[i].state = "returned"

\* C15 as stated: when the table discovery of a target fails, only that
\* target's branch ends, the target contributes no cells, the other targets
\* are merged, and Verify returns an error.
C15_DiscoveryFailureSurfaced ==
    /\ OnlyFailedBranchesEnd
    /\ (Checked /\ \E i \in Idx : env[i] = "discfail") => ret.err # "nil"

\* The tables a target discovers under the configuration.
Discovered == TablesIn(DiscoveredTables(c))

\* C16: a target whose fingerprint queries fail with an error other than
\* "no rows" keeps the error sentinel in the cells of the failed queries,
\* goes on with the remaining modes and tables, and still merges its
\* SingleResult: when Verify returns, the target has a cell for every mode
\* of every discovered table, holding "(err)" where the query failed and the
\* query's value where it succeeded, and all of them are merged.
C16_QueryErrorRecordedNotPropagated ==
    (Checked /\ Connectable) =>
        \A i \in {j \in Idx : env[j] \in {"ok", "qfail"}} :
            /\ add[i].state = "returned"
            /\ TablesIn(sr[i]) = Discovered
            /\ \A tb \in Discovered : \A m \in Range(c.TestModes) :
                  LET q == buildQuery(c, tb[1], tb[2], ColumnsOf(catalog, tb), m)
                      failed == env[i] = "qfail" \/ QueryFails(q, db[i])
                      output == sr[i][tb[1]][tb[2]][m]
                  IN  /\ output = IF failed THEN defaultErrorOutput
                                  ELSE QueryValue(q, db[i]).text
                      /\ targetNames[i] \in
                            Range(ListOf(ret.results, <<tb[1], tb[2], m>>, output))

\* Verify has returned after the full query of the table without a primary
\* key failed on a healthy target whose other queries, on that table and on
\* the other tables, succeeded.
C16_Witness ==
    /\ Checked
    /\ env = <<"ok", "ok">>
    /\ Cardinality(Discovered) = 3
    /\ sr[1][SchemaName][NoKeyTable][TestModeFull] = defaultErrorOutput
    /\ sr[1][SchemaName][NoKeyTable][TestModeRowCount] = ToText(1)
    /\ sr[1][SchemaName][TableName][TestModeFull] # defaultErrorOutput
    /\ sr[1][OtherSchema][TableName][TestModeFull] # defaultErrorOutput

\* C17: a target whose fingerprint queries yield no rows records "no rows"
\* in its cells, which is not the error sentinel; when every target does,
\* every cell holds that single output from all targets, CheckForErrors
\* reports nothing about it and Verify returns nil.
C17_NoRowsIsNotAnError ==
    /\ <<"no rows">> # defaultErrorOutput
    /\ (Checked /\ Connectable) =>
          /\ \A i \in {j \in Idx : env[j] = "norows"} :
                \A cell \in CellsOf(sr[i]) :
                    sr[i][cell[1]][cell[2]][cell[3]] = <<"no rows">>
          /\ (\A i \in Idx : env[i] = "norows") =>
                /\ CellsOf(ret.results.content) # {}
                /\ \A cell \in CellsOf(ret.results.content) :
                      /\ DOMAIN Outputs(ret.results, cell) = {<<"no rows">>}
                      /\ ErrorsAbout(ret.errors, cell) = {}
                /\ ret.err = "nil"

\* Verify has returned nil after all three targets recorded "no rows".
C17_Witness ==
    /\ Checked
    /\ \A i \in Idx : env[i] = "norows" /\ add[i].state = "returned"
    /\ ret.err = "nil"
    /\ Cardinality(Idx) = 3

\* The discovered tables for which the column discovery reports no
\* primary-key column.
KeylessTables == {tb \in Discovered : primaryKeysOf(ColumnsOf(catalog, tb)) = <<>>}

\* C18 as stated: a table without a primary-key column is skipped on the
\* target: no fingerprint query runs for it in any mode (no cell of it holds
\* the value of a query) and the target contributes no cells of it.
C18_KeylessTableSkipped ==
    (Checked /\ Connectable) =>
        \A tb \in KeylessTables :
            /\ \A i \in {j \in Idx : env[j] = "ok"} :
                  \A m \in Range(c.TestModes) :
                      <<tb[1], tb[2], m>> \in CellsOf(sr[i]) =>
                          sr[i][tb[1]][tb[2]][m] = defaultErrorOutput
            /\ \A cell \in CellsOf(ret.results.content) : <<cell[1], cell[2]>> # tb

\* C19: for every order of the same column list, buildFullHashQuery,
\* buildSparseHashQuery and buildBookendHashQuery build the same query; so
\* the query a branch has run is the one built from any other order.
C19_BuildersIgnoreColumnOrder ==
    \A columns \in Shuffles(catalog) :
        /\ buildFullHashQuery(c, SchemaName, TableName, columns)
              = buildFullHashQuery(c, SchemaName, TableName, catalog)
        /\ buildSparseHashQuery(c, SchemaName, TableName, columns, c.SparseMod)
              = buildSparseHashQuery(c, SchemaName, TableName, catalog, c.SparseMod)
        /\ buildBookendHashQuery(c, SchemaName, TableName, columns, c.BookendLimit)
              = buildBookendHashQuery(c, SchemaName, TableName, catalog, c.BookendLimit)
        /\ \A i \in Idx :
              (pcV \in {"wait", "returned"} /\ pcB[i] \in {"lock", "exit"}) =>
                  \A m \in Range(c.TestModes) :
                      sr[i][SchemaName][TableName][m] =
                          QueryValue(buildQuery(c, SchemaName, TableName, columns, m),
                                     db[i]).text

\* A branch has run the query built from the columns reported in the order
\* zid, v, id, with a composite primary key.
C19_Witness ==
    /\ namesOf(catalog) = <<"zid", "v", "id">>
    /\ Cardinality(PkNames(catalog)) = 2
    /\ c.TestModes = <<TestModeSparse>>
    /\ pcB[1] = "lock"
    /\ sr[1][SchemaName][TableName][TestModeSparse] # defaultErrorOutput

\* The clauses of the table discovery query of the configuration that
\* filter a column with an operator.
ClausesOn(column, op) ==
    LET q == buildGetTablesQuery(c.IncludeSchemas, c.ExcludeSchemas,
                                 c.IncludeTables, c.ExcludeTables)
    IN  {q.where[k] : k \in {x \in DOMAIN q.where :
                                q.where[x].column = column /\ q.where[x].op = op}}

\* Include wins in one dimension of the discovery query.
IncludeWins(column, include, exclude) ==
    /\ include # <<>> =>
          /\ ClausesOn(column, "IN") = {[column |-> column, op |-> "IN", values |-> include]}
          /\ ClausesOn(column, "NOT IN") = {}
    /\ ClausesOn(column, "NOT IN") # {} <=> (include = <<>> /\ exclude # <<>>)
    /\ (include = <<>> /\ exclude # <<>>) =>
          ClausesOn(column, "NOT IN")
              = {[column |-> column, op |-> "NOT IN", values |-> exclude]}

\* A name passes the lists of its dimension when include wins.
Passes(name, include, exclude) ==
    IF include # <<>> THEN name \in Range(include) ELSE name \notin Range(exclude)

C21_ExcludeOverridesInclude ==
    \A i \in Idx :
        (pcV = "wait" /\ pcB[i] \notin {"idle", "fetch"} /\ env[i] # "discfail") =>
            \A tb \in TablesIn(sr[i]) :
                /\ (c.IncludeSchemas # <<>> /\ c.ExcludeSchemas # <<>>) =>
                      tb[1] \notin Range(c.ExcludeSchemas)
                /\ (c.IncludeTables # <<>> /\ c.ExcludeTables # <<>>) =>
                      tb[2] \notin Range(c.ExcludeTables)

KeyColumns == {catalog[k] : k \in {x \in DOMAIN catalog :
                                      "PRIMARY KEY" \in Range(catalog[x].constraints)}}

\* A sequence of cast expressions is the casts of all key columns, each
\* once, in the order of sort.Strings.
KeyCastsSorted(casts) ==
    /\ Len(casts) = Cardinality(KeyColumns)
    /\ Range(casts) = {CastToText(col, c.TimestampPrecision) : col \in KeyColumns}
    /\ \A k, l \in DOMAIN casts : k < l => CastLess(casts[k], casts[l])

\* C23: in the full, sparse and bookend queries of a table the ORDER BY
\* expression is CONCAT over the casts to text of all primary-key columns
\* and of no other column, sorted, wrapped in MD5 exactly when
\* HashPrimaryKeys is set; the bucketing expression of the sparse query is
\* CONCAT over the same casts.
C23_OrderByAllKeyColumns ==
    LET full == buildFullHashQuery(c, SchemaName, TableName, catalog)
        sparse == buildSparseHashQuery(c, SchemaName, TableName, catalog, c.SparseMod)
        bookend == buildBookendHashQuery(c, SchemaName, TableName, catalog, c.BookendLimit)
    IN  /\ \A q \in {full, sparse, bookend} :
              KeyCastsSorted(q.orderBy) /\ (q.md5Key <=> c.HashPrimaryKeys)
        /\ KeyCastsSorted(sparse.bucketBy)
        /\ \A i \in Idx :
              (pcV \in {"wait", "returned"} /\ pcB[i] \in {"lock", "exit"}) =>
                  \A m \in Range(c.TestModes) :
                      KeyCastsSorted(buildQuery(c, SchemaName, TableName, catalog, m).orderBy)

\* A branch has run the bookend query of a table with the primary key
\* (zid, id), reported in that order, with hashed primary keys.
C23_Witness ==
    /\ Cardinality(KeyColumns) = 2
    /\ namesOf(catalog) = <<"zid", "id", "v">>
    /\ c.HashPrimaryKeys
    /\ c.TestModes = <<TestModeBookend>>
    /\ pcB[1] = "lock"
    /\ sr[1][SchemaName][TableName][TestModeBookend] # defaultErrorOutput

\* The names of the primary-key columns, and the primary-key values of rows.
KeyNames == {col.name : col \in KeyColumns}

KeysOf(rows) == {[k \in KeyNames |-> row[k]] : row \in rows}

\* The sparse query of the table under the configuration.
SparseQuery == buildSparseHashQuery(c, SchemaName, TableName, catalog, c.SparseMod)

\* The rows of a table whose hashed primary key is congruent to 0 modulo
\* the sparse divisor.
BucketRows(rows) ==
    {r \in rows : HashInt(MD5(ConcatCasts(SparseQuery.bucketBy, r))) % c.SparseMod = 0}

\* The rows the sparse query of target i hashes.
SparseRows(i) == Range(SparseFilter(SparseQuery, db[i], db[i]))

\* C24: the sparse query has one membership condition per primary-key
\* column, in alphabetical order of column name; the rows it hashes are
\* those that satisfy every condition, each condition accepting the values
\* its column takes among the rows whose hashed primary key is congruent to
\* 0 modulo the divisor; tables with the same primary-key values select
\* rows with the same primary-key values; a target's sparse output is the
\* aggregate over no rows exactly when no row is selected.
C24_SparseSelectsByKeyBuckets ==
    (TestModeSparse \in Range(c.TestModes) /\ c.SparseMod > 0) =>
        /\ Range(SparseQuery.whenClauses) = KeyNames
        /\ Len(SparseQuery.whenClauses) = Cardinality(KeyNames)
        /\ \A k, l \in DOMAIN SparseQuery.whenClauses :
              k < l => NameRank(SparseQuery.whenClauses[k])
                           < NameRank(SparseQuery.whenClauses[l])
        /\ \A i \in Idx :
              SparseRows(i) =
                  {row \in Range(db[i]) :
                      \A k \in KeyNames :
                          \E r \in BucketRows(Range(db[i])) : r[k] = row[k]}
        /\ \A i, j \in Idx :
              KeysOf(Range(db[i])) = KeysOf(Range(db[j])) =>
                  KeysOf(SparseRows(i)) = KeysOf(SparseRows(j))
        /\ \A i \in Idx :
              (pcV \in {"wait", "returned"} /\ pcB[i] \in {"lock", "exit"}
                  /\ env[i] = "ok") =>
                  (sr[i][SchemaName][TableName][TestModeSparse] = Null.text
                      <=> SparseRows(i) = {})

\* Target 1 has run the sparse query with divisor 2 on a table with a
\* composite key, and one of its two rows was selected.
C24_Witness ==
    /\ c.TestModes = <<TestModeSparse>>
    /\ c.SparseMod = 2
    /\ Cardinality(KeyNames) = 2
    /\ Len(db[1]) = 2
    /\ Cardinality(SparseRows(1)) = 1
    /\ pcV = "wait"
    /\ pcB[1] = "lock"

\* The configuration without its column filter.
Unfiltered == [c EXCEPT !.IncludeColumns = <<>>, !.ExcludeColumns = <<>>]

\* The hash queries of the table under a configuration.
HashQueries(config) ==
    [m \in {TestModeFull, TestModeSparse, TestModeBookend} |->
        buildQuery(config, SchemaName, TableName, catalog, m)]

\* The key columns that the column filter of the configuration leaves out
\* of the hashed payload.
KeysOutOfScope ==
    {col \in KeyColumns :
        CastToText(col, c.TimestampPrecision) \notin Range(HashQueries(c)[TestModeFull].hashed)}

PrecisionMicros ==
    [microseconds |-> 1, milliseconds |-> 1000, second |-> 1000000]

\* The cast of the timestamp column under the configured precision.
TimeCast == CastToText(CatalogTime[2], c.TimestampPrecision)

\* Both targets have run the full query in the first call.
BothQueried ==
    /\ call = 1
    /\ pcV \in {"wait", "returned"}
    /\ \A i \in Idx : pcB[i] \in {"lock", "exit"}

C27_InvalidPrecisionRejected ==
    c.TimestampPrecision \notin DateTruncUnits =>
        /\ pcV \in {"validate", "returned"}
        /\ conns = {}
        /\ \A i \in Idx : pcB[i] = "idle"
        /\ pcV = "returned" => ret.err = "config"

\* The aliases name the targets.
Aliased == Len(c.Aliases) = Len(targets)

\* C28: target i is named by alias i when there are as many aliases as
\* targets and by its host otherwise; the target-name list of the Results
\* holds these names in the order of the targets, and the name under which
\* a branch merges its outputs is the one of its target.
C28_TargetsNamedByAliasOrHost ==
    /\ Aliased => \A i \in DOMAIN targetNames : targetNames[i] = c.Aliases[i]
    /\ ~Aliased => \A i \in DOMAIN targetNames : targetNames[i] = targets[i]
    /\ ~finalResults.nil =>
          /\ Len(finalResults.targetNames) = Len(targets)
          /\ \A i \in Idx :
                finalResults.targetNames[i] = IF Aliased THEN c.Aliases[i] ELSE targets[i]
          /\ MergedNames(finalResults) \subseteq Range(finalResults.targetNames)
          /\ \A i \in Idx :
                (pcV \in {"wait", "returned"} /\ add[i].state = "returned") =>
                    \A cell \in CellsOf(sr[i]) :
                        finalResults.targetNames[i] \in
                            Range(Outputs(finalResults, cell)[sr[i][cell[1]][cell[2]][cell[3]]])

\* Verify has returned for two targets and one alias: both targets are
\* named by their hosts in the list and in the cells.
C28_Witness ==
    /\ c.Aliases = <<"pg">>
    /\ pcV = "returned"
    /\ ret.results.targetNames = <<"h1", "h2">>
    /\ MergedNames(ret.results) = {"h1", "h2"}

\* Every entry of every target list of the Results was appended by a branch
\* of the current call that holds the output, and no target is listed twice.
NoLeftover(r) ==
    \A cell \in CellsOf(r.content) :
        \A o \in DOMAIN Outputs(r, cell) :
            LET list == Outputs(r, cell)[o]
            IN  /\ \A k \in DOMAIN list :
                      \E i \in Idx :
                          /\ list[k] = targetNames[i]
                          /\ add[i].state \in {"running", "returned"}
                          /\ cell \in CellsOf(sr[i])
                          /\ sr[i][cell[1]][cell[2]][cell[3]] = o
                /\ \A k, l \in DOMAIN list : list[k] = list[l] => k = l

\* C29: the Results of a call holds nothing but what the branches of that
\* call merged; a later call on unchanged tables returns the report and
\* the verdict of the call before, and a later call after an insert into
\* the first target returns a row-count mismatch where the call before
\* passed.
C29_ResultsFreshPerCall ==
    /\ (pcV \in {"wait", "returned"} /\ ~finalResults.nil) => NoLeftover(finalResults)
    /\ (Checked /\ call > 1) =>
          /\ NoLeftover(ret.results)
          /\ inserted = <<>> => Kept(ret) = prev
          /\ (inserted # <<>> /\ c.TestModes = <<TestModeRowCount>>) =>
                prev.err = "nil" /\ ret.err # "nil"

\* The second call has returned a mismatch after an insert, where the first
\* call passed with both targets in the cell.
C29_Witness ==
    /\ call = 2
    /\ Checked
    /\ inserted # <<>>
    /\ c.TestModes = <<TestModeRowCount>>
    /\ prev.err = "nil"
    /\ prev.content # EmptyMap
    /\ ret.err # "nil"

\* C30 as stated: once Verify has returned, nothing changes the returned
\* Results (content, target names, test modes and their order) nor the
\* TestModes of the caller's Config; and CheckForErrors returns the Results
\* it read.
C30_ResultsReadOnlyAfterReturn ==
    [][/\ (pcV = "returned" /\ pcV' = "returned") =>
              (ret'.results = ret.results /\ c'.TestModes = c.TestModes)
       /\ (pcV = "wait" /\ pcV' = "returned") => ret'.results = finalResults]_vars

\* The (schema, table) pairs of the content of a Results.
TablesOfResults(r) == {<<cell[1], cell[2]>> : cell \in CellsOf(r.content)}

\* The output a target recorded for a cell of the Results, if any.
Recorded(r, cell, name) ==
    {o \in DOMAIN Outputs(r, cell) : name \in Range(Outputs(r, cell)[o])}

\* The rows of the written table are about recorded outputs: one column
\* per configured mode, and every cell the output its target recorded or
\* the error marker.
RowsShowRecordedOutputs ==
    /\ Len(table.header) = Len(ret.results.testModes) + 3
    /\ Range(SubSeq(table.header, 3, Len(table.header) - 1)) = Range(c.TestModes)
    /\ \A row \in table.rows :
          /\ <<row.schema, row.table>> \in TablesOfResults(ret.results)
          /\ Len(row.cells) = Len(c.TestModes)
          /\ \A k \in DOMAIN row.cells :
                LET cell == <<row.schema, row.table, table.header[k + 2]>>
                IN  IF Recorded(ret.results, cell, row.target) = {}
                    THEN row.cells[k] = defaultErrorOutput
                    ELSE row.cells[k] \in Recorded(ret.results, cell, row.target)
          /\ \A other \in table.rows :
                (other.schema = row.schema /\ other.table = row.table
                    /\ other.target = row.target) => other = row

\* C31 as stated: the written table has exactly one row for every schema
\* and table of the Results and every target of the run, with one column
\* per configured test mode, and a cell without recorded output shows the
\* error marker.
C31_OneRowPerTableAndTarget ==
    table # NoTable =>
        /\ RowsShowRecordedOutputs
        /\ {<<row.schema, row.table, row.target>> : row \in table.rows}
              = {<<tb[1], tb[2], name>> : tb \in TablesOfResults(ret.results),
                                          name \in Range(ret.results.targetNames)}

\* The incompleteness errors among the errors about a cell.
IncompleteErrorsAbout(errors, cell) ==
    {e \in ErrorsAbout(errors, cell) :
        e.format = "%s.%s test %s has %d targets (should be %d)"}

C33_ScanErrorDropsOneRow ==
    \A i \in Idx :
        /\ (env[i] = "cscanfail" /\ pcV \in {"wait", "returned"} /\ pcB[i] = "tests") =>
              Len(work[i].columns) = Len(ColumnsOf(catalog, work[i].cur)) - 1
        /\ (env[i] \in ScanHealths /\ Checked) =>
              /\ add[i].state = "returned"
              /\ TablesIn(sr[i]) \subseteq Discovered
              /\ Cardinality(TablesIn(sr[i])) >= Cardinality(Discovered) - 1
              /\ \A tb \in TablesIn(sr[i]) :
                    targetNames[i] \in RowTargets(ret.results, tb[1], tb[2])

\* The hash queries of the table that fold rows in the order of the key.
OrderedQueries ==
    {ModeQuery(m) : m \in {TestModeFull, TestModeSparse, TestModeBookend}}

\* C34 as stated: on every target, two rows with different primary-key
\* tuples have different values of the ORDER BY expression of the full,
\* sparse and bookend queries, so two targets that hold the same rows fold
\* them in the same order, whatever the physical order.
C34_OrderDeterminedByKey ==
    \A q \in OrderedQueries :
        /\ \A i \in Idx :
              \A k, l \in DOMAIN db[i] :
                  PkOf(catalog, db[i][k]) # PkOf(catalog, db[i][l]) =>
                      OrderKey(q, db[i][k]) # OrderKey(q, db[i][l])
        /\ \A i, j \in Idx :
              (RowSet(db[i]) = RowSet(db[j]) /\ Len(db[i]) = Len(db[j])) =>
                  OrderRows(db[i], q, FALSE) = OrderRows(db[j], q, FALSE)

\* C35 as stated: with no include and no exclude list for schemas and
\* tables, the table discovery query is the selection from
\* information_schema.tables without a WHERE clause, and a branch
\* discovers every relation of the catalog with it.
C35_NoFiltersNoWhere ==
    (/\ c.IncludeSchemas = <<>> /\ c.ExcludeSchemas = <<>>
     /\ c.IncludeTables = <<>> /\ c.ExcludeTables = <<>>) =>
        /\ buildGetTablesQuery(c.IncludeSchemas, c.ExcludeSchemas,
                               c.IncludeTables, c.ExcludeTables)
              = [from |-> "information_schema.tables", where |-> <<>>]
        /\ \A i \in Idx :
              (pcV \in {"wait", "returned"} /\ pcB[i] \notin {"idle", "fetch"}) =>
                  TablesIn(sr[i]) = {<<row.table_schema, row.table_name>> :
                                        row \in InformationSchemaTables}

\* C36: a column is a primary key exactly when one of its constraint
\* labels is "PRIMARY KEY", whatever other labels it carries; so the key
\* columns with which a branch builds the queries of a table are the
\* columns that carry the label.
C36_PrimaryKeyIffLabelled ==
    /\ \A k \in DOMAIN catalog :
          IsPrimaryKey(catalog[k]) <=> "PRIMARY KEY" \in Range(catalog[k].constraints)
    /\ \A i \in Idx :
          (pcV \in {"wait", "returned"} /\ pcB[i] = "tests") =>
              Range(namesOf(primaryKeysOf(work[i].columns))) = KeyNames

\* A branch is about to query a table whose key column carries another
\* label before "PRIMARY KEY" and whose other columns carry another label
\* or none.
C36_Witness ==
    /\ catalog = CatalogConstrained
    /\ pcV = "wait"
    /\ pcB[1] = "tests"
    /\ work[1].columns = CatalogConstrained
    /\ KeyNames = {"id"}

\* The cells held by the targets whose AddResult has returned.
MergedCells == UNION {CellsOf(sr[i]) : i \in {j \in Idx : add[j].state = "returned"}}

\* The outputs the merged targets hold for a cell.
MergedOutputs(cell) ==
    {sr[i][cell[1]][cell[2]][cell[3]] :
        i \in {j \in Idx : add[j].state = "returned" /\ cell \in CellsOf(sr[j])}}

\* The content that the per-target outcomes determine, every target list in
\* the order of the targets: what merging the targets one after the other
\* gives.
MergedInOrder ==
    [s \in {cell[1] : cell \in MergedCells} |->
        [t \in {cell[2] : cell \in {x \in MergedCells : x[1] = s}} |->
            [m \in {cell[3] : cell \in {x \in MergedCells : x[1] = s /\ x[2] = t}} |->
                [o \in MergedOutputs(<<s, t, m>>) |->
                    SeqFilter(targetNames,
                              {targetNames[i] : i \in Holders(<<s, t, m>>, o)})]]]]

\* C37: the verdict does not depend on the interleaving of the branches:
\* when Verify returns, the targets of every (schema, table, mode, output)
\* are, as a set, the targets whose own outcome for the cell is that output,
\* the content differs from the one of a merge in target order by the order
\* inside the target lists at most, and the errors are those of that merge.
C37_VerdictIndependentOfSchedule ==
    Checked =>
        /\ CellsOf(ret.results.content) = MergedCells
        /\ \A cell \in MergedCells :
              /\ DOMAIN Outputs(ret.results, cell) = MergedOutputs(cell)
              /\ \A o \in MergedOutputs(cell) :
                    Range(Outputs(ret.results, cell)[o])
                        = {targetNames[i] : i \in Holders(cell, o)}
        /\ Kept(ret).content = MergedInOrder
        /\ ret.errors = CheckForErrors([ret.results EXCEPT !.content = MergedInOrder])

\* Verify has returned after the second target merged before the first and
\* the third target held another output for the cell.
C37_Witness ==
    /\ Checked
    /\ \E cell \in CellsOf(ret.results.content) :
          \E o1, o2 \in DOMAIN Outputs(ret.results, cell) :
              /\ Outputs(ret.results, cell)[o1] = <<"h2", "h1">>
              /\ Outputs(ret.results, cell)[o2] = <<"h3">>
    /\ ret.err = "mismatch"

\* The cells a SingleResult has to hold: every configured mode of every
\* discovered table.
DiscoveredCells == {<<tb[1], tb[2], m>> : tb \in Discovered, m \in Range(c.TestModes)}

\* The positions of a branch after its table discovery has succeeded.
PastDiscovery == {"columns", "tests", "lock", "merge", "append", "unlock"}

\* C38: from the table discovery to the merge the SingleResult of a branch
\* holds one value for every configured mode of every discovered table and
\* nothing else; within a call a cell is never removed, and its value
\* changes only away from "(err)", to a query output or to "no rows", so it
\* changes at most once; what AddResult merges has no missing cell.
C38_SingleResultComplete ==
    /\ [](\A i \in Idx :
            (pcV \in {"wait", "returned"}
                /\ (pcB[i] \in PastDiscovery \/ add[i].state = "returned")) =>
                    CellsOf(sr[i]) = DiscoveredCells)
    /\ [][call' = call =>
            \A i \in Idx :
                /\ CellsOf(sr[i]) \subseteq CellsOf(sr'[i])
                /\ \A cell \in CellsOf(sr[i]) :
                      sr'[i][cell[1]][cell[2]][cell[3]] # sr[i][cell[1]][cell[2]][cell[3]] =>
                          /\ sr[i][cell[1]][cell[2]][cell[3]] = defaultErrorOutput
                          /\ sr'[i][cell[1]][cell[2]][cell[3]] # defaultErrorOutput]_vars

\* A branch is about to merge the results of three tables: the full query
\* of the table without a primary key left "(err)" and the other cells hold
\* query outputs.
C38_Witness ==
    /\ pcV = "wait"
    /\ pcB[1] = "lock"
    /\ Cardinality(Discovered) = 3
    /\ CellsOf(sr[1]) = DiscoveredCells
    /\ sr[1][SchemaName][NoKeyTable][TestModeFull] = defaultErrorOutput
    /\ \A cell \in DiscoveredCells \ {<<SchemaName, NoKeyTable, TestModeFull>>} :
          sr[1][cell[1]][cell[2]][cell[3]] # defaultErrorOutput

\* The full query of the table under the configuration.
FullQuery == buildFullHashQuery(c, SchemaName, TableName, catalog)

====
